---- MODULE Spec2Model ----
(***************************************************************************)
(* A model of the RV64 simulator core: the CSR file and trap unit          *)
(* (core/cpu.rs), the register file (core/register_file.rs), the           *)
(* five-stage pipeline (core/cpu.rs tick, core/control.rs,                 *)
(* core/stages/*.rs) and the Sv39 MMU (core/mmu/*.rs).                     *)
(*                                                                         *)
(* 64-bit words that the code treats as bit fields (mstatus, sstatus,      *)
(* medeleg, mideleg, mip, mie, page-table entries) are sets of bit         *)
(* positions in 0..63: x & y is x \cap y, x | y is x \cup y, x & !y is     *)
(* x \ y.  Addresses and register values are naturals.                     *)
(***************************************************************************)
EXTENDS Integers, FiniteSets, Sequences, TLC

VARIABLES
    privilege,      \* Cpu.privilege
    pc,             \* Cpu.pc
    csrs,           \* Cpu.csrs
    regs,           \* Cpu.regs.regs
    fregs,          \* Cpu.regs.fregs, as the bit patterns read_f returns
    if_id,          \* Cpu.if_id
    id_ex,          \* Cpu.id_ex
    ex_mem,         \* Cpu.ex_mem
    mem_wb,         \* Cpu.mem_wb
    l1_d_cache,     \* Cpu.l1_d_cache
    load_reservation, \* Cpu.load_reservation: {} for None, {a} for Some(a)
    branch_predictor, \* Cpu.branch_predictor
    wb_latch,       \* Cpu.wb_latch
    stall_cycles,   \* Cpu.stall_cycles
    stats,          \* Cpu.stats
    exit_code,      \* Cpu.exit_code: {} for None, {code} for Some(code)
    ram,            \* the RAM device's data words
    imem,           \* the RAM device's instruction words, by word index
    pt_mem,         \* the RAM device's page-table words, by address
    mmu,            \* Cpu.mmu: the data and instruction TLBs
    bus,            \* the interrupt sources on the bus: the CLINT and the PLIC
    ghost,          \* history: the architectural register values in program
                    \* order, fetch numbers, what the execute stage last used
    halted,         \* the simulator stopped: a panic, or tick returned Err
    last,           \* the operation performed by the last step, with its arguments
    steps           \* number of operations performed so far

vars == <<privilege, pc, csrs, regs, fregs, if_id, id_ex, ex_mem, mem_wb,
          l1_d_cache, load_reservation, branch_predictor, wb_latch, stall_cycles, stats, exit_code, ram, imem, pt_mem, mmu,
          bus, ghost, halted, last, steps>>

(***************************************************************************)
(* Bounds of the model.                                                    *)
(***************************************************************************)
MaxSteps == 4

(***************************************************************************)
(* isa/csr.rs: CSR addresses and bit masks.                                *)
(***************************************************************************)
Bits == 0..63

MHARTID == 3860

MSTATUS == 768
MEDELEG == 770
MIDELEG == 771
MIE == 772
MTVEC == 773
MEPC == 833
MCAUSE == 834
MTVAL == 835
MIP == 836
SSTATUS == 256
SIE == 260
STVEC == 261
SEPC == 321
SCAUSE == 322
STVAL == 323
SIP == 324
SATP == 384
CSR_SIM_PANIC == 2303

MSTATUS_SIE == {1}
MSTATUS_MIE == {3}
MSTATUS_SPIE == {5}
MSTATUS_MPIE == {7}
MSTATUS_SPP == {8}
MSTATUS_MPP == {11, 12}
MSTATUS_FS == {13, 14}
MSTATUS_FS_INIT == {13}
MSTATUS_SUM == {18}
MSTATUS_MXR == {19}

MIE_SSIP == {1}
MIE_MSIP == {3}
MIE_STIE == {5}
MIE_MTIE == {7}
MIE_SEIP == {9}
MIE_MEIP == {11}

MIP_SSIP == {1}
MIP_MSIP == {3}
MIP_STIP == {5}
MIP_MTIP == {7}
MIP_SEIP == {9}
MIP_MEIP == {11}

\* The two-bit MPP field of a status word, as a number (mstatus >> 11) & 3.
MppOf(status) == (IF 11 \in status THEN 1 ELSE 0) + (IF 12 \in status THEN 2 ELSE 0)

\* (priv as u64) << 11, as a set of bits.
MppBits(p) == (IF p % 2 = 1 THEN {11} ELSE {}) \cup (IF (p \div 2) % 2 = 1 THEN {12} ELSE {})

(***************************************************************************)
(* core/types.rs: the trap taxonomy.  A trap is a record of its kind and   *)
(* its payload (0 for kinds that carry none).                              *)
(***************************************************************************)
NoTrap == [kind |-> "None", payload |-> 0]

MkTrap(k, p) == [kind |-> k, payload |-> p]

\* Cpu::trap, the match that encodes (is_interrupt, code).
TrapIsInterrupt(cause) ==
    cause.kind \in {"UserSoftwareInterrupt", "SupervisorSoftwareInterrupt",
                    "MachineSoftwareInterrupt", "SupervisorTimerInterrupt",
                    "MachineTimerInterrupt", "ExternalInterrupt"}

TrapCode(cause) ==
    CASE cause.kind = "InstructionAddressMisaligned" -> 0
      [] cause.kind = "InstructionAccessFault" -> 1
      [] cause.kind = "IllegalInstruction" -> 2
      [] cause.kind = "Breakpoint" -> 3
      [] cause.kind = "LoadAddressMisaligned" -> 4
      [] cause.kind = "LoadAccessFault" -> 5
      [] cause.kind = "StoreAddressMisaligned" -> 6
      [] cause.kind = "StoreAccessFault" -> 7
      [] cause.kind = "EnvironmentCallFromUMode" -> 8
      [] cause.kind = "EnvironmentCallFromSMode" -> 9
      [] cause.kind = "EnvironmentCallFromMMode" -> 11
      [] cause.kind = "InstructionPageFault" -> 12
      [] cause.kind = "LoadPageFault" -> 13
      [] cause.kind = "StorePageFault" -> 15
      [] cause.kind = "UserSoftwareInterrupt" -> 0
      [] cause.kind = "SupervisorSoftwareInterrupt" -> 1
      [] cause.kind = "MachineSoftwareInterrupt" -> 3
      [] cause.kind = "SupervisorTimerInterrupt" -> 5
      [] cause.kind = "MachineTimerInterrupt" -> 7
      [] cause.kind = "ExternalInterrupt" -> 9
      [] cause.kind = "RequestedTrap" -> cause.payload

\* Cpu::trap, the match that selects tval.
TrapTval(cause) ==
    IF cause.kind \in {"InstructionAddressMisaligned", "InstructionAccessFault",
                       "LoadAddressMisaligned", "LoadAccessFault",
                       "StoreAddressMisaligned", "StoreAccessFault",
                       "InstructionPageFault", "LoadPageFault", "StorePageFault",
                       "IllegalInstruction"}
    THEN cause.payload
    ELSE 0

\* A cause register value (1 << 63) | code: the top bit and the low bits.
CauseWord(is_interrupt, code) == [interrupt |-> is_interrupt, code |-> code]


(***************************************************************************)
(* core/pipeline.rs: the latches.  An instruction word is a record of its  *)
(* operation and of the raw fields rd (bits 7-11), rs1 (15-19), rs2        *)
(* (20-24) and rs3 (27-31); seq is the order in which it was fetched (0 in *)
(* a latch that holds no fetched word).                                    *)
(***************************************************************************)
\* The word 0x00000013 (addi x0, x0, 0) and the word 0 of unwritten RAM.
NopInst == [op |-> "NOP", rd |-> 0, rs1 |-> 0, rs2 |-> 0, rs3 |-> 0, imm |-> 0]

ZeroInst == [op |-> "ZERO", rd |-> 0, rs1 |-> 0, rs2 |-> 0, rs3 |-> 0, imm |-> 0]

\* ControlSignals::default()
CtrlDefault ==
    [reg_write |-> FALSE, fp_reg_write |-> FALSE, mem_read |-> FALSE,
     mem_write |-> FALSE, branch |-> FALSE, jump |-> FALSE,
     a_src |-> "Reg1", b_src |-> "Imm", is_system |-> FALSE, csr_addr |-> 0,
     csr_op |-> "None", is_mret |-> FALSE, is_sret |-> FALSE,
     atomic_op |-> "None", rs1_fp |-> FALSE, rs2_fp |-> FALSE, rs3_fp |-> FALSE]

\* IfId::default()
IfIdDefault == [pc |-> 0, inst |-> NopInst, seq |-> 0]

\* IdEx::default(); inst is 0 there and NOP in IdEx::bubble(), and no stage
\* tells the two apart after decode.
IdExDefault ==
    [pc |-> 0, inst |-> NopInst, rs1 |-> 0, rs2 |-> 0, rs3 |-> 0, rd |-> 0,
     imm |-> 0, rv1 |-> 0, rv2 |-> 0, rv3 |-> 0, ctrl |-> CtrlDefault,
     trap |-> NoTrap, seq |-> 0]

\* IdEx::bubble()
IdExBubble ==
    [IdExDefault EXCEPT !.ctrl = [CtrlDefault EXCEPT !.reg_write = FALSE,
                                                     !.mem_write = FALSE,
                                                     !.mem_read = FALSE]]

\* ExMem::default()
ExMemDefault ==
    [pc |-> 0, inst |-> NopInst, rd |-> 0, alu |-> 0, store_data |-> 0,
     ctrl |-> CtrlDefault, trap |-> NoTrap, seq |-> 0]

\* MemWb::default()
MemWbDefault ==
    [pc |-> 0, inst |-> NopInst, rd |-> 0, alu |-> 0, load_data |-> 0,
     ctrl |-> CtrlDefault, trap |-> NoTrap, seq |-> 0]

(***************************************************************************)
(* core/cpu.rs: the Cpu as one record, so that the stages compose.         *)
(***************************************************************************)
Cpu ==
    [privilege |-> privilege, pc |-> pc, csrs |-> csrs, regs |-> regs,
     fregs |-> fregs, if_id |-> if_id, id_ex |-> id_ex, ex_mem |-> ex_mem,
     mem_wb |-> mem_wb, wb_latch |-> wb_latch, stall_cycles |-> stall_cycles,
     stats |-> stats, exit_code |-> exit_code, ram |-> ram, imem |-> imem,
     pt_mem |-> pt_mem, mmu |-> mmu, ghost |-> ghost, halted |-> halted,
     l1_d_cache |-> l1_d_cache, load_reservation |-> load_reservation,
     branch_predictor |-> branch_predictor]

SetCpu(c) ==
    /\ privilege' = c.privilege
    /\ pc' = c.pc
    /\ csrs' = c.csrs
    /\ regs' = c.regs
    /\ fregs' = c.fregs
    /\ if_id' = c.if_id
    /\ id_ex' = c.id_ex
    /\ ex_mem' = c.ex_mem
    /\ mem_wb' = c.mem_wb
    /\ wb_latch' = c.wb_latch
    /\ stall_cycles' = c.stall_cycles
    /\ stats' = c.stats
    /\ exit_code' = c.exit_code
    /\ ram' = c.ram
    /\ imem' = c.imem
    /\ pt_mem' = c.pt_mem
    /\ mmu' = c.mmu
    /\ ghost' = c.ghost
    /\ halted' = c.halted
    /\ l1_d_cache' = c.l1_d_cache
    /\ load_reservation' = c.load_reservation
    /\ branch_predictor' = c.branch_predictor

\* A panic of the simulator (an arithmetic-overflow check of a debug build).
Panic(c) == [c EXCEPT !.halted = TRUE]

(***************************************************************************)
(* Cpu::trap                                                               *)
(***************************************************************************)
\* (deleg_mask >> code) & 1 on u64.  A release build masks the shift amount
\* to six bits; a debug build panics when code >= 64 (TrapPanics).
ShrBit(mask, code) == (code % 64) \in mask

TrapPanics(cause) == TrapCode(cause) >= 64

DelegMask(c, cause) ==
    IF TrapIsInterrupt(cause) THEN c.csrs.mideleg ELSE c.csrs.medeleg

DelegateToS(c, cause) ==
    c.privilege <= 1 /\ ShrBit(DelegMask(c, cause), TrapCode(cause))

\* base of a trap vector plus the vectored offset
TrapVector(tvec, cause) ==
    (tvec - (tvec % 4))
    + (IF tvec % 2 = 1 /\ TrapIsInterrupt(cause) THEN 4 * TrapCode(cause) ELSE 0)

trap(c, cause, epc) ==
    LET is_interrupt == TrapIsInterrupt(cause)
        code == TrapCode(cause)
        tval == TrapTval(cause)
        sst == c.csrs.sstatus
        sst1 == IF MSTATUS_SIE \subseteq sst THEN sst \cup MSTATUS_SPIE
                ELSE sst \ MSTATUS_SPIE
        sst2 == IF c.privilege = 1 THEN sst1 \cup MSTATUS_SPP
                ELSE sst1 \ MSTATUS_SPP
        sst3 == sst2 \ MSTATUS_SIE
        mst == c.csrs.mstatus
        mst1 == IF MSTATUS_MIE \subseteq mst THEN mst \cup MSTATUS_MPIE
                ELSE mst \ MSTATUS_MPIE
        mst2 == (mst1 \ MSTATUS_MPP) \cup MppBits(c.privilege)
        mst3 == mst2 \ MSTATUS_MIE
        taken == [c EXCEPT !.stats.traps_taken = @ + 1,
                           !.if_id = IfIdDefault,
                           !.id_ex = IdExDefault]
    IN  IF DelegateToS(c, cause)
        THEN [taken EXCEPT !.csrs.scause = CauseWord(is_interrupt, code),
                           !.csrs.sepc = epc,
                           !.csrs.stval = tval,
                           !.csrs.sstatus = sst3,
                           !.privilege = 1,
                           !.pc = TrapVector(c.csrs.stvec, cause)]
        ELSE [taken EXCEPT !.csrs.mcause = CauseWord(is_interrupt, code),
                           !.csrs.mepc = epc,
                           !.csrs.mtval = tval,
                           !.csrs.mstatus = mst3,
                           !.privilege = 3,
                           !.pc = TrapVector(c.csrs.mtvec, cause)]

(***************************************************************************)
(* Cpu::csr_read, Cpu::csr_write                                           *)
(***************************************************************************)
SstatusMask ==
    MSTATUS_SIE \cup MSTATUS_SPIE \cup MSTATUS_SPP \cup MSTATUS_FS
    \cup MSTATUS_SUM \cup MSTATUS_MXR

csr_read(c, addr) ==
    CASE addr = MSTATUS -> c.csrs.mstatus
      [] addr = MEDELEG -> c.csrs.medeleg
      [] addr = MIDELEG -> c.csrs.mideleg
      [] addr = MIE -> c.csrs.mie
      [] addr = MTVEC -> c.csrs.mtvec
      [] addr = MEPC -> c.csrs.mepc
      [] addr = MCAUSE -> c.csrs.mcause
      [] addr = MTVAL -> c.csrs.mtval
      [] addr = MIP -> c.csrs.mip
      [] addr = SSTATUS -> c.csrs.sstatus
      [] addr = SIE -> c.csrs.mie \cap c.csrs.mideleg
      [] addr = STVEC -> c.csrs.stvec
      [] addr = SEPC -> c.csrs.sepc
      [] addr = SCAUSE -> c.csrs.scause
      [] addr = STVAL -> c.csrs.stval
      [] addr = SIP -> c.csrs.mip \cap c.csrs.mideleg
      [] addr = SATP -> c.csrs.satp
      [] OTHER -> 0

\* A csr_write that has no arm for any register: every write is dropped.
csr_write_dropped(c, addr, val) == c

csr_write(c, addr, val) ==
    CASE addr = CSR_SIM_PANIC -> trap(c, MkTrap("RequestedTrap", val), c.pc)
      [] addr = MSTATUS -> [c EXCEPT !.csrs.mstatus = val]
      [] addr = MEDELEG -> [c EXCEPT !.csrs.medeleg = val]
      [] addr = MIDELEG -> [c EXCEPT !.csrs.mideleg = val]
      [] addr = MIE -> [c EXCEPT !.csrs.mie = val]
      [] addr = MTVEC -> [c EXCEPT !.csrs.mtvec = val]
      [] addr = MEPC -> [c EXCEPT !.csrs.mepc = val - (val % 2)]
      [] addr = MCAUSE -> [c EXCEPT !.csrs.mcause = val]
      [] addr = MTVAL -> [c EXCEPT !.csrs.mtval = val]
      [] addr = MIP ->
            LET mask == MIP_SSIP \cup MIP_STIP \cup MIP_SEIP
            IN  [c EXCEPT !.csrs.mip = (c.csrs.mip \ mask) \cup (val \cap mask)]
      [] addr = SSTATUS ->
            LET m == (c.csrs.mstatus \ SstatusMask) \cup (val \cap SstatusMask)
            IN  [c EXCEPT !.csrs.mstatus = m,
                          !.csrs.sstatus = m \cap SstatusMask]
      [] addr = SIE ->
            LET mask == c.csrs.mideleg
            IN  [c EXCEPT !.csrs.mie = (c.csrs.mie \ mask) \cup (val \cap mask)]
      [] addr = STVEC -> [c EXCEPT !.csrs.stvec = val]
      [] addr = SEPC -> [c EXCEPT !.csrs.sepc = val - (val % 2)]
      [] addr = SCAUSE -> [c EXCEPT !.csrs.scause = val]
      [] addr = STVAL -> [c EXCEPT !.csrs.stval = val]
      [] addr = SATP -> [c EXCEPT !.csrs.satp = val]
      [] addr = SIP ->
            LET mask == c.csrs.mideleg \cap MIP_SSIP
            IN  [c EXCEPT !.csrs.mip = (c.csrs.mip \ mask) \cup (val \cap mask)]
      [] OTHER -> c

(***************************************************************************)
(* Cpu::do_mret, Cpu::do_sret                                              *)
(***************************************************************************)
do_mret(c) ==
    LET mst == c.csrs.mstatus
        mpp == MppOf(mst)
        new1 == IF MSTATUS_MPIE \subseteq mst THEN mst \cup MSTATUS_MIE
                ELSE mst \ MSTATUS_MIE
        new2 == (new1 \cup MSTATUS_MPIE) \ MSTATUS_MPP
    IN  [c EXCEPT !.pc = c.csrs.mepc - (c.csrs.mepc % 2),
                  !.privilege = mpp,
                  !.csrs.mstatus = new2,
                  !.if_id = IfIdDefault,
                  !.id_ex = IdExDefault]

do_sret(c) ==
    LET sst == c.csrs.sstatus
        spp == MSTATUS_SPP \subseteq sst
        new1 == IF MSTATUS_SPIE \subseteq sst THEN sst \cup MSTATUS_SIE
                ELSE sst \ MSTATUS_SIE
        new2 == (new1 \cup MSTATUS_SPIE) \ MSTATUS_SPP
        mask == MSTATUS_SIE \cup MSTATUS_SPIE \cup MSTATUS_SPP
    IN  [c EXCEPT !.pc = c.csrs.sepc - (c.csrs.sepc % 2),
                  !.privilege = IF spp THEN 1 ELSE 0,
                  !.csrs.sstatus = new2,
                  !.csrs.mstatus = (c.csrs.mstatus \ mask) \cup (new2 \cap mask),
                  !.if_id = IfIdDefault,
                  !.id_ex = IdExDefault]


(***************************************************************************)
(* core/mmu/tlb.rs and core/mmu/mod.rs: the Sv39 MMU.  A page-table entry  *)
(* is kept decoded: the bits V, R, W, X, U, A, D (0, 1, 2, 3, 4, 6, 7) and *)
(* the PPN field (bits 10 to 53).  pt_mem holds the words of RAM that a    *)
(* page-table walk can reach; every other word of RAM reads 0.             *)
(***************************************************************************)
PteZero == [v |-> FALSE, r |-> FALSE, w |-> FALSE, x |-> FALSE, u |-> FALSE,
            a |-> FALSE, d |-> FALSE, ppn |-> 0]

\* Bus::read_u64 and Bus::write_u64 on the page-table words.
ReadPte(mem, addr) == IF addr \in DOMAIN mem THEN mem[addr] ELSE PteZero

WritePte(mem, addr, pte) ==
    IF addr \in DOMAIN mem THEN [mem EXCEPT ![addr] = pte] ELSE mem

\* The page-table words: entries 0 and 1 of the root table, entry 0 of the
\* tables at pages 2 and 3.
PteAddrs == {4096, 4104, 8192, 12288}

\* config.memory.tlb_size
TlbSize == 1

\* TlbEntry::default(); pte_addr is history: the address of the PTE the
\* entry was filled from.
TlbEntryDefault ==
    [vpn |-> 0, ppn |-> 0, valid |-> FALSE, r |-> FALSE, w |-> FALSE,
     x |-> FALSE, u |-> FALSE, pte_addr |-> 0]

\* Tlb::new
TlbNew == [entries |-> [i \in 1..TlbSize |-> TlbEntryDefault], repl_ptr |-> 0]

\* Mmu::new
MmuNew == [dtlb |-> TlbNew, itlb |-> TlbNew]

\* Tlb::lookup: the first valid entry of the page, or the default (invalid)
\* entry for None.
TlbLookup(tlb, vpn) ==
    LET hits == {i \in DOMAIN tlb.entries :
                    tlb.entries[i].valid /\ tlb.entries[i].vpn = vpn}
    IN  IF hits = {} THEN TlbEntryDefault
        ELSE tlb.entries[CHOOSE i \in hits : \A j \in hits : i <= j]

\* Tlb::insert
TlbInsert(tlb, vpn, ppn, pte, pte_addr) ==
    [entries |-> [tlb.entries EXCEPT ![tlb.repl_ptr + 1] =
                     [vpn |-> vpn, ppn |-> ppn, valid |-> TRUE, r |-> pte.r,
                      w |-> pte.w, x |-> pte.x, u |-> pte.u,
                      pte_addr |-> pte_addr]],
     repl_ptr |-> (tlb.repl_ptr + 1) % TlbSize]

\* Tlb::flush
TlbFlush(tlb) ==
    [tlb EXCEPT !.entries = [i \in DOMAIN @ |-> [@[i] EXCEPT !.valid = FALSE]]]

\* a | b on unsigned integers.
RECURSIVE BitOr(_, _)
BitOr(a, b) ==
    IF a = 0 THEN b
    ELSE IF b = 0 THEN a
    ELSE (IF a % 2 = 1 \/ b % 2 = 1 THEN 1 ELSE 0) + 2 * BitOr(a \div 2, b \div 2)

\* VirtAddr::vpn0, vpn1, vpn2 and page_offset
VpnLevel(vaddr, level) == (vaddr \div (2 ^ (12 + 9 * level))) % 512

PageOffset(vaddr) == vaddr % 4096

\* Bus::calculate_transit_time, for a bus of 8 bytes with latency 1.
BusWidthBytes == 8

BusLatencyCycles == 1

calculate_transit_time(bytes) ==
    BusLatencyCycles + ((bytes + BusWidthBytes - 1) \div BusWidthBytes)

\* The page fault of an access type.
PageFault(access, vaddr) ==
    MkTrap(CASE access = "Fetch" -> "InstructionPageFault"
             [] access = "Write" -> "StorePageFault"
             [] access = "Read" -> "LoadPageFault", vaddr)

\* TranslationResult::success and ::fault, with the state the call leaves.
\* leaf and hit are history: the address of the leaf PTE the translation
\* resolved to (0 for none), and whether a TLB entry served it.
TrSuccess(c, paddr, cycles, leaf, hit) ==
    [cpu |-> c, paddr |-> paddr, cycles |-> cycles, trap |-> NoTrap,
     leaf |-> leaf, hit |-> hit]

TrFault(c, cause, cycles) ==
    [cpu |-> c, paddr |-> 0, cycles |-> cycles, trap |-> cause,
     leaf |-> 0, hit |-> FALSE]

SATP_MODE_BARE == 0

SATP_MODE_SV39 == 8

\* Mmu::translate, the TLB hit.
TlbHit(c, e, vaddr, access) ==
    IF access = "Fetch" /\ ~e.x THEN TrFault(c, PageFault("Fetch", vaddr), 0)
    ELSE IF access = "Write" /\ ~e.w THEN TrFault(c, PageFault("Write", vaddr), 0)
    ELSE IF access = "Read" /\ ~e.r
            /\ (~(MSTATUS_MXR \subseteq c.csrs.sstatus) \/ ~e.x)
    THEN TrFault(c, PageFault("Read", vaddr), 0)
    ELSE IF c.privilege = 0 /\ ~e.u THEN TrFault(c, PageFault(access, vaddr), 0)
    ELSE IF c.privilege = 1 /\ e.u /\ ~(MSTATUS_SUM \subseteq c.csrs.sstatus)
    THEN TrFault(c, PageFault(access, vaddr), 0)
    ELSE TrSuccess(c, BitOr(e.ppn * 4096, PageOffset(vaddr)), 0, e.pte_addr, TRUE)

\* Mmu::translate, the page-table walk from `level` down.
RECURSIVE Walk(_, _, _, _, _, _)
Walk(c, vaddr, access, level, pt_addr, cycles) ==
    LET pte_addr == pt_addr + VpnLevel(vaddr, level) * 8
        cyc == cycles + calculate_transit_time(8)
        pte == ReadPte(c.pt_mem, pte_addr)
    IN  IF ~pte.v THEN TrFault(c, PageFault(access, vaddr), cyc)
        ELSE IF ~pte.r /\ ~pte.w /\ ~pte.x
        THEN IF level = 0 THEN TrFault(c, PageFault(access, vaddr), cyc)
             ELSE Walk(c, vaddr, access, level - 1, pte.ppn * 4096, cyc)
        ELSE IF pte.w /\ ~pte.r THEN TrFault(c, PageFault("Write", vaddr), cyc)
        ELSE LET update == ~pte.a \/ (access = "Write" /\ ~pte.d)
                 new_pte == [pte EXCEPT !.a = TRUE,
                                        !.d = @ \/ access = "Write"]
                 vpn == vaddr \div 4096
                 final_paddr == BitOr(pte.ppn * 4096,
                                      vaddr % (2 ^ (12 + 9 * level)))
                 c1 == IF update
                       THEN [c EXCEPT !.pt_mem = WritePte(@, pte_addr, new_pte)]
                       ELSE c
                 c2 == IF access = "Fetch"
                       THEN [c1 EXCEPT !.mmu.itlb =
                                TlbInsert(@, vpn, pte.ppn, new_pte, pte_addr)]
                       ELSE [c1 EXCEPT !.mmu.dtlb =
                                TlbInsert(@, vpn, pte.ppn, new_pte, pte_addr)]
             IN  TrSuccess(c2, final_paddr,
                           IF update THEN cyc + 10 ELSE cyc, pte_addr, FALSE)

\* Mmu::translate
translate(c, vaddr, access) ==
    IF c.privilege = 3 \/ c.csrs.satp.mode = SATP_MODE_BARE
    THEN TrSuccess(c, vaddr, 0, 0, FALSE)
    ELSE IF c.csrs.satp.mode # SATP_MODE_SV39
    THEN TrFault(c, MkTrap("InstructionAccessFault", vaddr), 0)
    ELSE LET vpn == vaddr \div 4096
             e == IF access = "Fetch" THEN TlbLookup(c.mmu.itlb, vpn)
                  ELSE TlbLookup(c.mmu.dtlb, vpn)
         IN  IF e.valid THEN TlbHit(c, e, vaddr, access)
             ELSE Walk(c, vaddr, access, 2, c.csrs.satp.ppn * 4096, 0)

(***************************************************************************)
(* core/register_file.rs                                                   *)
(***************************************************************************)
\* RegisterFile::read
RegRead(rf, idx) == IF idx = 0 THEN 0 ELSE rf[idx]

\* A register file whose write has no guard for index 0.
RegWriteUnguarded(rf, idx, val) == [rf EXCEPT ![idx] = val]

\* RegisterFile::write
RegWrite(rf, idx, val) == IF idx # 0 THEN [rf EXCEPT ![idx] = val] ELSE rf

\* RegisterFile::read_f, RegisterFile::write_f
RegReadF(frf, idx) == frf[idx]

RegWriteF(frf, idx, val) == [frf EXCEPT ![idx] = val]

(***************************************************************************)
(* isa/instruction.rs: the instruction words of the programs, by format.   *)
(* The immediate of an I-type word lies in bits 20-31 and that of an       *)
(* S-type word in bits 7-11 and 25-31, so the raw rs2, rs3 and rd fields   *)
(* of such a word hold bits of its immediate.                              *)
(***************************************************************************)
IType(op, rd, rs1, imm) ==
    [op |-> op, rd |-> rd, rs1 |-> rs1, rs2 |-> imm % 32,
     rs3 |-> (imm \div 128) % 32, imm |-> imm]

\* op_bits is funct7 >> 2, the bits 27-31 of the word.
RType(op, rd, rs1, rs2, op_bits) ==
    [op |-> op, rd |-> rd, rs1 |-> rs1, rs2 |-> rs2, rs3 |-> op_bits,
     imm |-> 0]

\* A B-type word: the rd field is imm[4:1|11], bits 27-31 are imm[12|10:7].
BType(op, rs1, rs2, imm) ==
    [op |-> op, rd |-> (((imm \div 2) % 16) * 2) + ((imm \div 2048) % 2),
     rs1 |-> rs1, rs2 |-> rs2,
     rs3 |-> (((imm \div 4096) % 2) * 16) + ((imm \div 128) % 16), imm |-> imm]

\* A J-type word: bits 15-19 are imm[19:15], bits 20-24 imm[4:1|11], bits
\* 27-31 imm[20|10:7].
JType(op, rd, imm) ==
    [op |-> op, rd |-> rd, rs1 |-> (imm \div 32768) % 32,
     rs2 |-> (((imm \div 2) % 16) * 2) + ((imm \div 2048) % 2),
     rs3 |-> (((imm \div 1048576) % 2) * 16) + ((imm \div 128) % 16),
     imm |-> imm]

SType(op, rs1, rs2, imm) ==
    [op |-> op, rd |-> imm % 32, rs1 |-> rs1, rs2 |-> rs2,
     rs3 |-> (imm \div 128) % 32, imm |-> imm]

\* isa/sys_ops.rs MRET = 0x30200073: rs2 field 2, bits 27-31 are 6.
MretInst == [op |-> "MRET", rd |-> 0, rs1 |-> 0, rs2 |-> 2, rs3 |-> 6, imm |-> 0]

\* isa/sys_ops.rs SFENCE_VMA = 0x12000073 (sfence.vma x0, x0): funct3 is 0,
\* the CSR field (bits 20-31) is 0x120.
SFENCE_VMA == 301990003

SfenceInst == IType("SFENCE_VMA", 0, 0, 288)

\* isa/sys_ops.rs ECALL = 0x00000073, and the number of the exit call.
EcallInst == IType("ECALL", 0, 0, 0)

SYS_EXIT == 93

\* isa/abi.rs
REG_A0 == 10

REG_A1 == 11

REG_A7 == 17

\* isa/funct7.rs
FCLASS_MV_X_F == 28

(***************************************************************************)
(* core/stages/decode.rs                                                   *)
(***************************************************************************)
\* decode_logic: the control signals of an instruction word.
DecodeLogic(inst) ==
    LET c == [CtrlDefault EXCEPT !.a_src = "Reg1", !.b_src = "Imm"]
    IN  CASE inst.op = "ADDI" -> [c EXCEPT !.reg_write = TRUE]
          [] inst.op = "ADD" -> [c EXCEPT !.reg_write = TRUE, !.b_src = "Reg2"]
          [] inst.op = "LD" -> [c EXCEPT !.reg_write = TRUE, !.mem_read = TRUE]
          [] inst.op = "FLD" -> [c EXCEPT !.fp_reg_write = TRUE, !.mem_read = TRUE]
          [] inst.op = "SD" -> [c EXCEPT !.mem_write = TRUE, !.b_src = "Imm"]
          [] inst.op = "FMV_X_D" ->
                [c EXCEPT !.rs1_fp = TRUE, !.rs2_fp = TRUE, !.fp_reg_write = FALSE,
                          !.reg_write = TRUE, !.b_src = "Reg2"]
          [] inst.op \in {"BEQ", "BNE"} ->
                [c EXCEPT !.branch = TRUE, !.b_src = "Reg2"]
          [] inst.op = "ECALL" -> [c EXCEPT !.is_system = TRUE]
          [] inst.op = "MRET" -> [c EXCEPT !.is_system = TRUE, !.is_mret = TRUE]
          [] inst.op = "SRET" -> [c EXCEPT !.is_system = TRUE, !.is_sret = TRUE]

\* decode_logic, the Err results: a SYSTEM word that is none of ECALL,
\* EBREAK, MRET, SRET is taken for a CSR instruction, and its funct3 of 0
\* names no CSR operation.
DecodeTrap(inst) ==
    IF inst.op = "SFENCE_VMA" THEN MkTrap("IllegalInstruction", SFENCE_VMA)
    ELSE NoTrap

decode_stage(c) ==
    LET f == c.if_id
        inst == f.inst
    IN  IF inst.op \in {"NOP", "ZERO"}
        THEN [c EXCEPT !.id_ex = [IdExDefault EXCEPT !.seq = f.seq]]
        ELSE LET trap_ == DecodeTrap(inst)
                 ctrl == IF trap_ # NoTrap THEN CtrlDefault ELSE DecodeLogic(inst)
                 rv1 == IF ctrl.rs1_fp THEN RegReadF(c.fregs, inst.rs1)
                        ELSE RegRead(c.regs, inst.rs1)
                 rv2 == IF ctrl.rs2_fp THEN RegReadF(c.fregs, inst.rs2)
                        ELSE RegRead(c.regs, inst.rs2)
                 rv3 == IF ctrl.rs3_fp THEN RegReadF(c.fregs, inst.rs3) ELSE 0
             IN  [c EXCEPT !.id_ex =
                     [pc |-> f.pc, inst |-> inst, rs1 |-> inst.rs1,
                      rs2 |-> inst.rs2, rs3 |-> inst.rs3, rd |-> inst.rd,
                      imm |-> inst.imm, rv1 |-> rv1, rv2 |-> rv2, rv3 |-> rv3,
                      ctrl |-> ctrl, trap |-> trap_, seq |-> f.seq]]

\* A hazard unit that never reports a load-use hazard.
need_stall_never(id_ex_, if_id_inst) == FALSE

(***************************************************************************)
(* core/control.rs: the hazard unit.                                       *)
(***************************************************************************)
need_stall_load_use(id_ex_, if_id_inst) ==
    IF ~id_ex_.ctrl.mem_read THEN FALSE
    ELSE IF ~id_ex_.ctrl.fp_reg_write /\ id_ex_.rd = 0 THEN FALSE
    ELSE \/ id_ex_.rd = if_id_inst.rs1
         \/ id_ex_.rd = if_id_inst.rs2
         \/ id_ex_.rd = if_id_inst.rs3

\* forward_rs, the closure check.
FwdCheck(dest, dest_fp, src, src_fp) ==
    IF dest_fp # src_fp THEN FALSE
    ELSE IF dest # src THEN FALSE
    ELSE IF ~dest_fp /\ dest = 0 THEN FALSE
    ELSE TRUE

\* A forwarding unit with the priorities exchanged: EX/MEM first, then the
\* write-back latch overriding it, so that the older writer wins.
forward_rs_older_wins(id_ex_, ex_mem_, mem_wb_) ==
    LET ex_on == (ex_mem_.ctrl.reg_write \/ ex_mem_.ctrl.fp_reg_write)
                 /\ ~ex_mem_.ctrl.mem_read
        ex_val == IF ex_mem_.ctrl.jump THEN ex_mem_.pc + 4 ELSE ex_mem_.alu
        ex_fp == ex_mem_.ctrl.fp_reg_write
        a1 == IF ex_on /\ FwdCheck(ex_mem_.rd, ex_fp, id_ex_.rs1, id_ex_.ctrl.rs1_fp)
              THEN ex_val ELSE id_ex_.rv1
        b1 == IF ex_on /\ FwdCheck(ex_mem_.rd, ex_fp, id_ex_.rs2, id_ex_.ctrl.rs2_fp)
              THEN ex_val ELSE id_ex_.rv2
        c1 == IF ex_on /\ FwdCheck(ex_mem_.rd, ex_fp, id_ex_.rs3, id_ex_.ctrl.rs3_fp)
              THEN ex_val ELSE id_ex_.rv3
        wb_on == mem_wb_.ctrl.reg_write \/ mem_wb_.ctrl.fp_reg_write
        wb_val == IF mem_wb_.ctrl.mem_read THEN mem_wb_.load_data
                  ELSE IF mem_wb_.ctrl.jump THEN mem_wb_.pc + 4
                  ELSE mem_wb_.alu
        wb_fp == mem_wb_.ctrl.fp_reg_write
        a2 == IF wb_on /\ FwdCheck(mem_wb_.rd, wb_fp, id_ex_.rs1, id_ex_.ctrl.rs1_fp)
              THEN wb_val ELSE a1
        b2 == IF wb_on /\ FwdCheck(mem_wb_.rd, wb_fp, id_ex_.rs2, id_ex_.ctrl.rs2_fp)
              THEN wb_val ELSE b1
        c2 == IF wb_on /\ FwdCheck(mem_wb_.rd, wb_fp, id_ex_.rs3, id_ex_.ctrl.rs3_fp)
              THEN wb_val ELSE c1
    IN  <<a2, b2, c2>>

\* forward_rs: the operands <<a, b, c>> after forwarding from the write-back
\* latch and then, overriding it, from EX/MEM.
forward_rs(id_ex_, ex_mem_, mem_wb_) ==
    LET wb_on == mem_wb_.ctrl.reg_write \/ mem_wb_.ctrl.fp_reg_write
        wb_val == IF mem_wb_.ctrl.mem_read THEN mem_wb_.load_data
                  ELSE IF mem_wb_.ctrl.jump THEN mem_wb_.pc + 4
                  ELSE mem_wb_.alu
        wb_fp == mem_wb_.ctrl.fp_reg_write
        a1 == IF wb_on /\ FwdCheck(mem_wb_.rd, wb_fp, id_ex_.rs1, id_ex_.ctrl.rs1_fp)
              THEN wb_val ELSE id_ex_.rv1
        b1 == IF wb_on /\ FwdCheck(mem_wb_.rd, wb_fp, id_ex_.rs2, id_ex_.ctrl.rs2_fp)
              THEN wb_val ELSE id_ex_.rv2
        c1 == IF wb_on /\ FwdCheck(mem_wb_.rd, wb_fp, id_ex_.rs3, id_ex_.ctrl.rs3_fp)
              THEN wb_val ELSE id_ex_.rv3
        ex_on == (ex_mem_.ctrl.reg_write \/ ex_mem_.ctrl.fp_reg_write)
                 /\ ~ex_mem_.ctrl.mem_read
        ex_val == IF ex_mem_.ctrl.jump THEN ex_mem_.pc + 4 ELSE ex_mem_.alu
        ex_fp == ex_mem_.ctrl.fp_reg_write
        a2 == IF ex_on /\ FwdCheck(ex_mem_.rd, ex_fp, id_ex_.rs1, id_ex_.ctrl.rs1_fp)
              THEN ex_val ELSE a1
        b2 == IF ex_on /\ FwdCheck(ex_mem_.rd, ex_fp, id_ex_.rs2, id_ex_.ctrl.rs2_fp)
              THEN ex_val ELSE b1
        c2 == IF ex_on /\ FwdCheck(ex_mem_.rd, ex_fp, id_ex_.rs3, id_ex_.ctrl.rs3_fp)
              THEN ex_val ELSE c1
    IN  <<a2, b2, c2>>

(***************************************************************************)
(* The history the claims are stated over.  arch and farch are the         *)
(* register values of the program executed one instruction at a time: an   *)
(* instruction's result enters them when it is computed (in EX, or in MEM  *)
(* for a load), in the order the instructions pass those stages.  exec is  *)
(* what the execute stage of the last tick used for each register its      *)
(* instruction reads.                                                      *)
(***************************************************************************)
NoExec == [seq |-> 0, reads |-> {}]

\* The pc and the two front latches as the execute stage left them: the
\* decode and fetch stages of the same cycle refill them.
NoAfterEx == [ran |-> FALSE, pc |-> 0, if_id |-> IfIdDefault, id_ex |-> IdExDefault]

AfterEx(c) == [ran |-> TRUE, pc |-> c.pc, if_id |-> c.if_id, id_ex |-> c.id_ex]

\* The registers an instruction reads, and the operand (a: rs1, b: rs2)
\* each arrives on.
SrcRegs(inst) ==
    CASE inst.op \in {"ADDI", "LD", "FLD"} ->
            {[fp |-> FALSE, idx |-> inst.rs1, port |-> "a"]}
      [] inst.op \in {"ADD", "SD", "BEQ", "BNE"} ->
            {[fp |-> FALSE, idx |-> inst.rs1, port |-> "a"],
             [fp |-> FALSE, idx |-> inst.rs2, port |-> "b"]}
      [] inst.op = "FMV_X_D" -> {[fp |-> TRUE, idx |-> inst.rs1, port |-> "a"]}
      [] OTHER -> {}

ArchRead(g, fp, idx) ==
    IF fp THEN g.farch[idx] ELSE IF idx = 0 THEN 0 ELSE g.arch[idx]

ArchWrite(g, ctrl, rd, val) ==
    IF ctrl.fp_reg_write THEN [g EXCEPT !.farch[rd] = val]
    ELSE IF ctrl.reg_write /\ rd # 0 THEN [g EXCEPT !.arch[rd] = val]
    ELSE g

(***************************************************************************)
(* core/stages/execute.rs                                                  *)
(***************************************************************************)
\* core/bp: the predictor behind cpu.branch_predictor.  Every predictor
\* keeps a branch target buffer, which update_branch fills with the target
\* of a taken branch.  dir is what the direction tables (none for the static
\* predictor, counters and histories for the others) answer; the tables are
\* not modelled, a training may leave either answer.
BtbSize == 4

btb_index(pc_) == (pc_ \div 4) % BtbSize

BtbNew == [i \in 0..(BtbSize - 1) |-> [tag |-> 0, target |-> 0, valid |-> FALSE]]

\* Btb::lookup: {} for None, {t} for Some(t).
btb_lookup(btb, pc_) ==
    LET e == btb[btb_index(pc_)]
    IN  IF e.valid /\ e.tag = pc_ THEN {e.target} ELSE {}

btb_update(btb, pc_, target) ==
    [btb EXCEPT ![btb_index(pc_)] = [tag |-> pc_, target |-> target, valid |-> TRUE]]

\* core/bp/ras.rs: the return address stack, as the addresses below ptr.
RasSize == 2

ras_push(ras, addr) ==
    IF Len(ras) < RasSize THEN Append(ras, addr)
    ELSE [ras EXCEPT ![RasSize] = addr]

ras_top(ras) == IF Len(ras) = 0 THEN {} ELSE {ras[Len(ras)]}

BranchPredictorNew == [dir |-> FALSE, btb |-> BtbNew, ras |-> <<>>]

predict_btb(bp, pc_) == btb_lookup(bp.btb, pc_)

predict_return(bp) == ras_top(bp.ras)

on_call(bp, pc_, ret_addr, target) ==
    [bp EXCEPT !.ras = ras_push(@, ret_addr), !.btb = btb_update(@, pc_, target)]

predict_branch(bp, pc_) ==
    IF bp.dir THEN [taken |-> TRUE, target |-> btb_lookup(bp.btb, pc_)]
    ELSE [taken |-> FALSE, target |-> {}]

update_branch(bp, pc_, taken, target) ==
    IF target # {}
    THEN [bp EXCEPT !.btb = btb_update(@, pc_, CHOOSE t \in target : TRUE)]
    ELSE bp

\* The branch block of execute_stage.
branch_taken(inst, op_a, op_b) ==
    CASE inst.op = "BEQ" -> op_a = op_b
      [] inst.op = "BNE" -> op_a # op_b
      [] OTHER -> FALSE

\* A branch unit that takes every prediction for correct.
resolve_branch_unchecked(c, id, op_a, op_b) ==
    [c EXCEPT !.stats.branch_predictions = @ + 1]

resolve_branch(c, id, op_a, op_b) ==
    LET taken == branch_taken(id.inst, op_a, op_b)
        actual == id.pc + id.imm
        fallthrough == id.pc + 4
        next_inst_pc == c.if_id.pc
        mispred == IF taken THEN next_inst_pc # actual
                   ELSE next_inst_pc # fallthrough
        redirect == IF ~mispred THEN c.pc
                    ELSE IF taken THEN actual ELSE fallthrough
        u == [c EXCEPT !.branch_predictor =
                 update_branch(@, id.pc, taken, IF taken THEN {actual} ELSE {})]
    IN  IF mispred
        THEN [u EXCEPT !.stats.branch_mispredictions = @ + 1,
                       !.stats.stalls_control = @ + 2,
                       !.pc = redirect,
                       !.if_id = IfIdDefault,
                       !.id_ex = IdExBubble]
        ELSE [u EXCEPT !.stats.branch_predictions = @ + 1]

\* alu(), for the operations of the programs: Add and FMvToX.
alu(inst, a, b) == IF inst.op = "FMV_X_D" THEN a ELSE a + b

execute_stage(c) ==
    LET id == c.id_ex
        fwd == forward_rs(c.id_ex, c.ex_mem, c.wb_latch)
        fwd_a == fwd[1]
        fwd_b == fwd[2]
        store_data == fwd_b
        op_a == CASE id.ctrl.a_src = "Reg1" -> fwd_a
                  [] id.ctrl.a_src = "Pc" -> id.pc
                  [] OTHER -> 0
        op_b == CASE id.ctrl.b_src = "Reg2" -> fwd_b
                  [] id.ctrl.b_src = "Imm" -> id.imm
                  [] OTHER -> 0
        alu_out == alu(id.inst, op_a, op_b)
        used == [seq |-> id.seq,
                 reads |-> {[fp |-> r.fp, idx |-> r.idx,
                             used |-> IF r.port = "a" THEN fwd_a ELSE fwd_b,
                             arch |-> ArchRead(c.ghost, r.fp, r.idx)] :
                            r \in SrcRegs(id.inst)}]
        g1 == [c.ghost EXCEPT !.exec = used]
        g2 == IF id.ctrl.mem_read THEN g1
              ELSE ArchWrite(g1, id.ctrl, id.rd, alu_out)
        seen == [seq |-> id.seq, reads |-> {}]
    IN  IF id.trap # NoTrap
        THEN [c EXCEPT !.ex_mem =
                 [pc |-> id.pc, inst |-> id.inst, rd |-> id.rd, alu |-> 0,
                  store_data |-> 0, ctrl |-> id.ctrl, trap |-> id.trap,
                  seq |-> id.seq],
                       !.ghost.exec = seen]
        ELSE IF id.ctrl.is_system /\ id.ctrl.is_mret
        THEN [do_mret(c) EXCEPT !.id_ex = IdExBubble]
        ELSE IF id.ctrl.is_system /\ id.ctrl.is_sret
        THEN [do_sret(c) EXCEPT !.id_ex = IdExBubble]
        ELSE IF id.ctrl.is_system /\ id.inst = SfenceInst
        THEN [c EXCEPT !.mmu.dtlb = TlbFlush(@), !.mmu.itlb = TlbFlush(@),
                       !.ghost.exec = seen]
        ELSE IF id.ctrl.is_system /\ id.inst = EcallInst
        THEN \* The exit call reads a7, a0 and a1 from the register file.
             LET val_a7 == RegRead(c.regs, REG_A7)
                 val_a0 == RegRead(c.regs, REG_A0)
                 val_a1 == RegRead(c.regs, REG_A1)
                 cause == CASE c.privilege = 0 -> "EnvironmentCallFromUMode"
                            [] c.privilege = 1 -> "EnvironmentCallFromSMode"
                            [] OTHER -> "EnvironmentCallFromMMode"
             IN  IF val_a7 = SYS_EXIT
                 THEN [c EXCEPT !.exit_code = {val_a0}, !.ghost.exec = seen]
                 ELSE IF val_a0 = SYS_EXIT
                 THEN [c EXCEPT !.exit_code = {val_a1}, !.ghost.exec = seen]
                 ELSE [trap([c EXCEPT !.ghost.exec = seen], MkTrap(cause, 0), id.pc)
                          EXCEPT !.id_ex = IdExBubble]
        ELSE IF id.ctrl.is_system /\ id.ctrl.csr_op # "None"
        THEN \* The register forms: a CSR word is a set of bits.
             LET old == csr_read(c, id.ctrl.csr_addr)
                 new == CASE id.ctrl.csr_op = "Rw" -> fwd_a
                          [] id.ctrl.csr_op = "Rs" -> old \cup fwd_a
                          [] OTHER -> old \ fwd_a
             IN  [csr_write(c, id.ctrl.csr_addr, new) EXCEPT
                     !.if_id = IfIdDefault,
                     !.id_ex = IdExBubble,
                     !.pc = id.pc + 4,
                     !.ex_mem = [pc |-> id.pc, inst |-> id.inst, rd |-> id.rd,
                                 alu |-> old, store_data |-> store_data,
                                 ctrl |-> id.ctrl, trap |-> NoTrap,
                                 seq |-> id.seq],
                     !.ghost.exec = seen]
        ELSE LET b == IF id.ctrl.branch THEN resolve_branch(c, id, op_a, op_b)
                      ELSE c
             IN  [b EXCEPT !.ex_mem =
                     [pc |-> id.pc, inst |-> id.inst, rd |-> id.rd,
                      alu |-> alu_out, store_data |-> store_data,
                      ctrl |-> id.ctrl, trap |-> NoTrap, seq |-> id.seq],
                           !.ghost = g2]

(***************************************************************************)
(* core/stages/memory_access.rs and core/stages/write_back.rs are not in   *)
(* the source tree; the two stages follow the specification (4.7.6, 4.7.7  *)
(* and section 7) and the uses core/cpu.rs and core/control.rs make of the *)
(* latches they fill.                                                      *)
(***************************************************************************)
\* The RAM words the programs load and store.
DataAddr == 64

\* A data access that misses the cache stalls the pipeline this long.
MissPenalty == 1

\* Loads read memory into MEM/WB.load_data, stores write it; the access is
\* charged to stall_cycles.  Satp is 0 (bare), so addresses are physical.
\* LR loads and records its address as the reservation; SC stores and
\* returns 0 iff the reservation is its address, returns 1 otherwise, and
\* clears the reservation; a store to the reserved address clears it.
mem_stage(c, miss) ==
    LET ex == c.ex_mem
        ok == ex.trap = NoTrap
        access == ok /\ (ex.ctrl.mem_read \/ ex.ctrl.mem_write)
        is_sc == ok /\ ex.ctrl.atomic_op = "Sc"
        matches == c.load_reservation = {ex.alu}
        data == IF is_sc THEN (IF matches THEN 0 ELSE 1)
                ELSE IF ok /\ ex.ctrl.mem_read THEN c.ram[ex.alu] ELSE 0
        ram1 == IF ok /\ ex.ctrl.mem_write /\ (is_sc => matches)
                THEN [c.ram EXCEPT ![ex.alu] = ex.store_data]
                ELSE c.ram
        g1 == IF ok /\ ex.ctrl.mem_read
              THEN ArchWrite(c.ghost, ex.ctrl, ex.rd, data)
              ELSE c.ghost
    IN  [c EXCEPT !.mem_wb =
                     [pc |-> ex.pc, inst |-> ex.inst, rd |-> ex.rd,
                      alu |-> ex.alu, load_data |-> data, ctrl |-> ex.ctrl,
                      trap |-> ex.trap, seq |-> ex.seq],
                  !.ram = ram1,
                  !.load_reservation =
                      IF ok /\ ex.ctrl.atomic_op = "Lr" THEN {ex.alu}
                      ELSE IF is_sc \/ (ok /\ ex.ctrl.mem_write /\ matches)
                      THEN {} ELSE @,
                  !.stall_cycles = @ + (IF access /\ miss THEN MissPenalty ELSE 0),
                  !.ghost = g1]

\* Traps are resolved here; otherwise the destination register is committed
\* and the instruction counted.
wb_stage(c) ==
    LET wb == c.mem_wb
        val == IF wb.ctrl.mem_read THEN wb.load_data
               ELSE IF wb.ctrl.jump THEN wb.pc + 4
               ELSE wb.alu
        is_inst == wb.seq # 0
    IN  IF wb.trap # NoTrap
        THEN trap(c, wb.trap, wb.pc)
        ELSE [c EXCEPT !.regs = IF wb.ctrl.reg_write THEN RegWrite(@, wb.rd, val)
                                ELSE @,
                       !.fregs = IF wb.ctrl.fp_reg_write
                                 THEN RegWriteF(@, wb.rd, val) ELSE @,
                       !.stats.instructions_retired =
                            @ + (IF is_inst THEN 1 ELSE 0),
                       !.ghost.retired =
                            IF is_inst THEN Append(@, wb.seq) ELSE @]

(***************************************************************************)
(* core/stages/fetch.rs.  The next pc of a conditional branch is the        *)
(* predictor's target when it predicts taken and the BTB holds one, and     *)
(* pc + 4 otherwise; instruction fetches hit the cache (no latency).        *)
(***************************************************************************)
\* Bus::read_u32 of an instruction word.
FetchWord(c, paddr) ==
    IF (paddr \div 4) \in DOMAIN c.imem THEN c.imem[paddr \div 4] ELSE ZeroInst

\* A misaligned pc or a fault of the translation makes the stage, and so
\* tick, return Err.  ghost.fetch is how the address was translated: by a
\* TLB entry ("hit"), by a page-table walk ("walk"), or not at all.
fetch_stage(c) ==
    IF c.pc % 4 # 0
    THEN [c EXCEPT !.halted = TRUE]
    ELSE LET tr == translate(c, c.pc, "Fetch")
             c1 == [tr.cpu EXCEPT !.stall_cycles = @ + tr.cycles,
                                  !.ghost.fetch = IF tr.hit THEN "hit"
                                                  ELSE IF tr.leaf # 0 THEN "walk"
                                                  ELSE "none"]
         IN  IF tr.trap # NoTrap
             THEN [c1 EXCEPT !.halted = TRUE]
             ELSE LET inst == FetchWord(c1, tr.paddr)
                      pred == predict_branch(c1.branch_predictor, c.pc)
                      next_pc == IF inst.op \in {"BEQ", "BNE"} /\ pred.taken
                                    /\ pred.target # {}
                                 THEN CHOOSE t \in pred.target : TRUE
                                 ELSE c.pc + 4
                  IN  [c1 EXCEPT !.if_id = [pc |-> c.pc, inst |-> inst,
                                            seq |-> c.ghost.nseq],
                                 !.ghost.nseq = @ + 1,
                                 !.ghost.fetched = Append(@, c.pc),
                                 !.pc = next_pc]

(***************************************************************************)
(* crates/hardware core/pipeline/stages/fetch.rs: the fetch stage of the   *)
(* superscalar pipeline fills IF/ID with a bundle of up to pipeline_width  *)
(* entries.  The programs hold 32-bit instructions; the all-zero half-word *)
(* is a compressed encoding that expands to 0, an illegal instruction.     *)
(***************************************************************************)
\* inst & OPCODE_MASK
opcode(inst) ==
    CASE inst.op \in {"BEQ", "BNE"} -> "OP_BRANCH"
      [] inst.op = "JAL" -> "OP_JAL"
      [] inst.op = "JALR" -> "OP_JALR"
      [] OTHER -> "OP_OTHER"

REG_ZERO == 0

REG_RA == 1

IfIdEntry(pc_, inst, inst_size, pred_taken, pred_target, trap_) ==
    [pc |-> pc_, inst |-> inst, inst_size |-> inst_size,
     pred_taken |-> pred_taken, pred_target |-> pred_target, trap |-> trap_]

\* The prediction of one slot: the next pc, what the entry records, and
\* whether the bundle ends here.
predict_slot(bp, inst, current_pc, step) ==
    LET none == [next_pc_calc |-> current_pc + step, pred_taken |-> FALSE,
                 pred_target |-> 0, stop_fetch |-> FALSE]
        to(tgt, stop) == [next_pc_calc |-> tgt, pred_taken |-> TRUE,
                          pred_target |-> tgt, stop_fetch |-> stop]
        some(o) == CHOOSE t \in o : TRUE
    IN  CASE opcode(inst) = "OP_BRANCH" ->
               LET p == predict_branch(bp, current_pc)
               IN  IF p.taken /\ p.target # {} THEN to(some(p.target), TRUE)
                   ELSE none
          [] opcode(inst) = "OP_JAL" ->
               LET t == predict_btb(bp, current_pc)
               IN  IF t # {} THEN to(some(t), TRUE) ELSE none
          [] opcode(inst) = "OP_JALR" ->
               LET t == IF inst.rd = REG_ZERO /\ inst.rs1 = REG_RA
                        THEN predict_return(bp)
                        ELSE predict_btb(bp, current_pc)
               IN  IF t # {} THEN to(some(t), TRUE)
                   ELSE [none EXCEPT !.stop_fetch = TRUE]
          [] OTHER -> none

RECURSIVE FetchLoop(_, _, _, _)
\* The loop of fetch_stage with n slots left.
FetchLoop(c, fetched, current_pc, n) ==
    LET done(k, f) == [cpu |-> k, fetched |-> f, pc |-> current_pc]
        misaligned == current_pc % 2 # 0
    IN  IF n = 0 \/ (misaligned /\ fetched # <<>>)
        THEN done(c, fetched)
        ELSE LET tr == IF misaligned THEN TrSuccess(c, 0, 0, 0, FALSE)
                       ELSE translate(c, current_pc, "Fetch")
                 c1 == [tr.cpu EXCEPT !.stall_cycles = @ + tr.cycles]
                 trap_cause ==
                     IF misaligned
                     THEN MkTrap("InstructionAddressMisaligned", current_pc)
                     ELSE tr.trap
                 inst == FetchWord(c1, tr.paddr)
             IN  IF trap_cause # NoTrap
                 THEN IF fetched = <<>>
                      THEN done(c1, <<IfIdEntry(current_pc, ZeroInst, 4, FALSE,
                                                0, trap_cause)>>)
                      ELSE done(c1, fetched)
                 ELSE IF inst = ZeroInst
                 THEN IF fetched = <<>>
                      THEN done(c1, <<IfIdEntry(current_pc, ZeroInst, 2, FALSE, 0,
                                                MkTrap("IllegalInstruction", 0))>>)
                      ELSE done(c1, fetched)
                 ELSE LET c2 == [c1 EXCEPT !.stall_cycles =
                                               @ + calculate_transit_time(4)]
                          p == predict_slot(c2.branch_predictor, inst,
                                            current_pc, 4)
                          f == Append(fetched,
                                      IfIdEntry(current_pc, inst, 4, p.pred_taken,
                                                p.pred_target, NoTrap))
                      IN  IF p.stop_fetch
                          THEN [cpu |-> c2, fetched |-> f, pc |-> p.next_pc_calc]
                          ELSE FetchLoop(c2, f, p.next_pc_calc, n - 1)

fetch_stage_wide(c, pipeline_width) ==
    LET r == FetchLoop(c, <<>>, c.pc, pipeline_width)
    IN  [r.cpu EXCEPT !.pc = r.pc, !.if_id = [entries |-> r.fetched]]

(***************************************************************************)
(* system/devices/plic.rs: the interrupt controller.  A 32-bit word is the *)
(* set of its bit positions; priorities are kept for the ids 0..63 that    *)
(* tick looks at, pending for the words 0 and 1, and enables, thresholds   *)
(* and claims for the contexts 0 and 1 that the registers reach.           *)
(***************************************************************************)
PLIC_PRIORITY_BASE == 0
PLIC_PENDING_BASE == 4096
PLIC_ENABLE_BASE == 8192
PLIC_CONTEXT_BASE == 2097152

Word32 == 0..31

PlicNew ==
    [priorities |-> [id \in 0..63 |-> 0],
     pending |-> [w \in 0..1 |-> {}],
     enables |-> [ctx \in 0..1 |-> {}],
     thresholds |-> [ctx \in 0..1 |-> 0],
     claims |-> [ctx \in 0..1 |-> 0]]

\* mask is the set of the ids whose lines are raised.
update_irqs(p, mask) ==
    [p EXCEPT !.pending[0] = mask \cap Word32,
              !.pending[1] = {b - 32 : b \in mask \ Word32}]

\* A read that leaves the pending bits alone.
PlicReadOnly(p, offset) ==
    IF offset >= PLIC_CONTEXT_BASE /\ (offset - PLIC_CONTEXT_BASE) \div 4096 < 2
       /\ offset % 4096 = 4
    THEN [plic |-> p, val |-> p.claims[(offset - PLIC_CONTEXT_BASE) \div 4096]]
    ELSE [plic |-> p, val |-> 0]

\* read_u32: the pending and enable words are not among the registers the
\* model reads.
PlicRead(p, offset) ==
    IF offset >= PLIC_PRIORITY_BASE /\ offset < PLIC_PENDING_BASE
    THEN LET idx == (offset - PLIC_PRIORITY_BASE) \div 4
         IN  [plic |-> p,
              val |-> IF idx \in DOMAIN p.priorities THEN p.priorities[idx]
                      ELSE 0]
    ELSE IF offset >= PLIC_CONTEXT_BASE
    THEN LET ctx == (offset - PLIC_CONTEXT_BASE) \div 4096
             reg == offset % 4096
         IN  IF ctx < 2 /\ reg = 0
             THEN [plic |-> p, val |-> p.thresholds[ctx]]
             ELSE IF ctx < 2 /\ reg = 4
             THEN LET claim == p.claims[ctx]
                  IN  [plic |-> IF claim > 0
                                THEN [p EXCEPT !.pending[claim \div 32] =
                                                   @ \ {claim % 32}]
                                ELSE p,
                       val |-> claim]
             ELSE [plic |-> p, val |-> 0]
    ELSE [plic |-> p, val |-> 0]

\* val is a number for a priority, a threshold and a completion, and a set
\* of bit positions for an enable word.
PlicWrite(p, offset, val) ==
    IF offset >= PLIC_PRIORITY_BASE /\ offset < PLIC_PENDING_BASE
    THEN LET idx == (offset - PLIC_PRIORITY_BASE) \div 4
         IN  IF idx \in DOMAIN p.priorities
             THEN [p EXCEPT !.priorities[idx] = val] ELSE p
    ELSE IF offset >= PLIC_ENABLE_BASE /\ offset < PLIC_CONTEXT_BASE
    THEN LET ctx == (offset - PLIC_ENABLE_BASE) \div 128
         IN  IF ctx < 2 THEN [p EXCEPT !.enables[ctx] = val] ELSE p
    ELSE IF offset >= PLIC_CONTEXT_BASE
    THEN LET ctx == (offset - PLIC_CONTEXT_BASE) \div 4096
             reg == offset % 4096
         IN  IF ctx < 2 /\ reg = 0 THEN [p EXCEPT !.thresholds[ctx] = val]
             ELSE IF ctx < 2 /\ reg = 4 THEN [p EXCEPT !.claims[ctx] = 0]
             ELSE p
    ELSE p

\* The loops of tick over the words w and the bits b, from id on: the
\* enable word is that of the context whatever w is.
RECURSIVE PlicScan(_, _, _, _)
PlicScan(p, id, max_prio, max_id) ==
    IF id > 63 THEN max_id
    ELSE LET active == p.pending[id \div 32] \cap p.enables[1]
             prio == p.priorities[id]
         IN  IF /\ (id % 32) \in active
                /\ id # 0
                /\ prio > max_prio
                /\ prio > p.thresholds[1]
             THEN PlicScan(p, id + 1, prio, id)
             ELSE PlicScan(p, id + 1, max_prio, max_id)

PlicTick(p) ==
    LET max_id == PlicScan(p, 0, 0, 0)
    IN  IF max_id > 0
        THEN [plic |-> [p EXCEPT !.claims[1] = max_id], irq |-> TRUE]
        ELSE [plic |-> p, irq |-> FALSE]

\* The enable bitmaps as written through the registers: the word w of
\* context ctx is at PLIC_ENABLE_BASE + 128 ctx + 4 w.
EnableBitmapNew == [ctx \in 0..1 |-> [w \in 0..1 |-> {}]]

EnableBitmapWrite(e, offset, val) ==
    IF offset >= PLIC_ENABLE_BASE /\ offset < PLIC_CONTEXT_BASE
    THEN LET ctx == (offset - PLIC_ENABLE_BASE) \div 128
             w == ((offset - PLIC_ENABLE_BASE) % 128) \div 4
         IN  IF ctx < 2 /\ w < 2 THEN [e EXCEPT ![ctx][w] = val] ELSE e
    ELSE e

(***************************************************************************)
(* system/devices/clint.rs: the timer.  A 64-bit register is the tuple of  *)
(* its four 16-bit quarters, lowest first; a 32-bit value has the upper    *)
(* two quarters 0.                                                         *)
(***************************************************************************)
MSIP_OFFSET == 0
MTIMECMP_OFFSET == 16384
MTIME_OFFSET == 49144

\* u64::MAX
U64Max == <<65535, 65535, 65535, 65535>>

\* An offset, which is below 2^16, as a u64.
OffsetWord(offset) == <<offset, 0, 0, 0>>

ClintNew(divider) ==
    [mtime |-> <<0, 0, 0, 0>>, mtimecmp |-> U64Max, msip |-> 0,
     divider |-> IF divider = 0 THEN 1 ELSE divider, counter |-> 0]

\* x as u32, x >> 32, x << 32 and the two halves joined, on u64 values.
Low32(x) == <<x[1], x[2], 0, 0>>

High32(x) == <<x[3], x[4], 0, 0>>

Shl32(x) == <<0, 0, x[1], x[2]>>

Join32(lo, hi) == <<lo[1], lo[2], hi[3], hi[4]>>

ClintRead32(cl, offset) ==
    CASE offset = MSIP_OFFSET -> <<cl.msip, 0, 0, 0>>
      [] offset = MTIMECMP_OFFSET -> Low32(cl.mtimecmp)
      [] offset = MTIMECMP_OFFSET + 4 -> High32(cl.mtimecmp)
      [] offset = MTIME_OFFSET -> Low32(cl.mtime)
      [] offset = MTIME_OFFSET + 4 -> High32(cl.mtime)
      [] OTHER -> <<0, 0, 0, 0>>

\* write_u32: in the arms of the upper halves `val` is the name the match
\* binds to the offset, so it is the offset that is shifted in.
ClintWrite32(cl, offset, val) ==
    CASE offset = MSIP_OFFSET -> [cl EXCEPT !.msip = val[1] % 2]
      [] offset = MTIMECMP_OFFSET ->
            [cl EXCEPT !.mtimecmp = Join32(val, @)]
      [] offset = MTIMECMP_OFFSET + 4 ->
            [cl EXCEPT !.mtimecmp = Join32(@, Shl32(OffsetWord(offset)))]
      [] offset = MTIME_OFFSET -> [cl EXCEPT !.mtime = Join32(val, @)]
      [] offset = MTIME_OFFSET + 4 ->
            [cl EXCEPT !.mtime = Join32(@, Shl32(OffsetWord(offset)))]
      [] OTHER -> cl

ClintWrite64(cl, offset, val) ==
    CASE offset = MSIP_OFFSET -> [cl EXCEPT !.msip = val[1] % 2]
      [] offset = MTIMECMP_OFFSET -> [cl EXCEPT !.mtimecmp = val]
      [] offset = MTIME_OFFSET -> [cl EXCEPT !.mtime = val]
      [] OTHER -> cl

\* x.wrapping_add(1)
WrappingInc(x) ==
    IF x[1] < 65535 THEN [x EXCEPT ![1] = @ + 1]
    ELSE IF x[2] < 65535 THEN <<0, x[2] + 1, x[3], x[4]>>
    ELSE IF x[3] < 65535 THEN <<0, 0, x[3] + 1, x[4]>>
    ELSE IF x[4] < 65535 THEN <<0, 0, 0, x[4] + 1>>
    ELSE <<0, 0, 0, 0>>

\* x >= y
GeU64(x, y) ==
    \/ x = y
    \/ \E i \in 1..4 : x[i] > y[i] /\ \A j \in (i + 1)..4 : x[j] = y[j]

ClintTick(cl) ==
    LET counter == cl.counter + 1
        t == IF counter >= cl.divider
             THEN [cl EXCEPT !.mtime = WrappingInc(@), !.counter = 0]
             ELSE [cl EXCEPT !.counter = counter]
    IN  [clint |-> t, irq |-> GeU64(t.mtime, t.mtimecmp) \/ t.msip % 2 # 0]

(***************************************************************************)
(* system/devices/uart.rs: the UART.  rx_receiver is what the channel      *)
(* holds: the bytes the stdin thread has sent and check_stdin has not yet  *)
(* received, oldest first.                                                 *)
(***************************************************************************)
UartNew ==
    [rx_queue |-> <<>>, rx_receiver |-> <<>>, ier |-> 0, lcr |-> 0,
     mcr |-> 0, scr |-> 0, div |-> 0, tick_count |-> 0]

\* Bit 7 of LCR: offsets 0 and 1 are the divisor latch.
Dlab(u) == (u.lcr \div 128) % 2 = 1

\* One turn of the stdin thread's loop: read_exact has returned a byte and
\* tx.send queues it.
StdinSend(u, byte) == [u EXCEPT !.rx_receiver = Append(@, byte)]

\* try_recv until the channel is empty.
check_stdin(u) ==
    [u EXCEPT !.rx_queue = @ \o u.rx_receiver, !.rx_receiver = <<>>]

\* A read of offset 0 that leaves the byte in the queue.
UartRead8Peek(u, offset) ==
    [uart |-> u,
     val |-> IF offset = 0 /\ ~Dlab(u) /\ u.rx_queue # <<>>
             THEN Head(u.rx_queue) ELSE 0]

UartRead8(u, offset) ==
    CASE offset = 0 ->
            IF Dlab(u) THEN [uart |-> u, val |-> u.div % 256]
            ELSE IF u.rx_queue = <<>> THEN [uart |-> u, val |-> 0]
            ELSE [uart |-> [u EXCEPT !.rx_queue = Tail(@)],
                  val |-> Head(u.rx_queue)]
      [] offset = 1 ->
            [uart |-> u, val |-> IF Dlab(u) THEN u.div \div 256 ELSE u.ier]
      [] offset = 2 -> [uart |-> u, val |-> 193]
      [] offset = 3 -> [uart |-> u, val |-> u.lcr]
      [] offset = 4 -> [uart |-> u, val |-> u.mcr]
      [] offset = 5 ->
            [uart |-> u, val |-> IF u.rx_queue # <<>> THEN 97 ELSE 96]
      [] offset = 7 -> [uart |-> u, val |-> u.scr]
      [] OTHER -> [uart |-> u, val |-> 0]

\* A write of offset 0 with DLAB clear prints the byte.
UartWrite8(u, offset, val) ==
    CASE offset = 0 ->
            IF Dlab(u) THEN [u EXCEPT !.div = ((@ \div 256) * 256) + val]
            ELSE u
      [] offset = 1 ->
            IF Dlab(u) THEN [u EXCEPT !.div = (@ % 256) + (val * 256)]
            ELSE [u EXCEPT !.ier = val]
      [] offset = 3 -> [u EXCEPT !.lcr = val]
      [] offset = 4 -> [u EXCEPT !.mcr = val]
      [] offset = 7 -> [u EXCEPT !.scr = val]
      [] OTHER -> u

\* tick_count is a u8: the channel is looked at when it wraps to 0.
UartTick(u) ==
    LET n == (u.tick_count + 1) % 256
        c == [u EXCEPT !.tick_count = n]
        t == IF n = 0 THEN check_stdin(c) ELSE c
    IN  [uart |-> t, irq |-> t.ier % 2 # 0 /\ t.rx_queue # <<>>]

\* What the two threads have done with the bytes: those the stdin thread
\* has sent, and those the guest has read from the receive register while
\* the queue held data.
UartLogNew == [sent |-> <<>>, got |-> <<>>]

(***************************************************************************)
(* system/devices/virtio_disk.rs: the block device.  RAM is the bytes      *)
(* 0..ram_size-1 behind ram_ptr.  A u64 is the tuple of its four 16-bit    *)
(* quarters, lowest first; the u32 registers that hold addresses are u64s  *)
(* with the upper quarters 0, the others are small numbers, and            *)
(* interrupt_status is the set of its bit positions.                       *)
(*                                                                         *)
(* An addition or multiplication that overflows panics in a build with     *)
(* overflow checks ("debug") and wraps in one without ("release"); a read  *)
(* outside the RAM bytes returns whatever is there (garbage).  The build   *)
(* and the garbage are arguments of process_queue.                         *)
(***************************************************************************)
\* ram_size, and the bytes of the disk image.
VRamSize == 104

DiskImage == <<17, 18, 19, 20, 21, 22>>

VirtioBlockNew ==
    [disk_image |-> <<>>, ram_size |-> VRamSize,
     status |-> 0, queue_num |-> 0, queue_ready |-> 0, queue_notify |-> 0,
     queue_desc_low |-> <<0, 0, 0, 0>>, queue_desc_high |-> <<0, 0, 0, 0>>,
     queue_avail_low |-> <<0, 0, 0, 0>>, queue_avail_high |-> <<0, 0, 0, 0>>,
     queue_used_low |-> <<0, 0, 0, 0>>, queue_used_high |-> <<0, 0, 0, 0>>,
     interrupt_status |-> {}, last_avail_idx |-> 0]

load(v, data) == [v EXCEPT !.disk_image = data]

\* The outcome of the last write to queue-notify: the DMA accesses it made,
\* the head indices of the requests it completed, whether it panicked, and
\* the device's last_avail_idx and the used ring's index before it.
DmaNew == [log |-> {}, done |-> <<>>, panic |-> FALSE, last_avail_idx |-> 0,
           used_idx |-> 0]

\* A number below 2^31 as a u64.
U64Of(n) == <<n % 65536, n \div 65536, 0, 0>>

\* The u64 is below 2^16: its value is its lowest quarter.
SmallU64(x) == x[2] = 0 /\ x[3] = 0 /\ x[4] = 0

\* x + y on u64: the wrapped sum and whether it overflowed.
Add64(x, y) ==
    LET s1 == x[1] + y[1]
        s2 == x[2] + y[2] + (s1 \div 65536)
        s3 == x[3] + y[3] + (s2 \div 65536)
        s4 == x[4] + y[4] + (s3 \div 65536)
    IN  [val |-> <<s1 % 65536, s2 % 65536, s3 % 65536, s4 % 65536>>,
         carry |-> s4 >= 65536]

\* x * 512 on u64.
Mul512(x) ==
    LET s1 == x[1] * 512
        s2 == (x[2] * 512) + (s1 \div 65536)
        s3 == (x[3] * 512) + (s2 \div 65536)
        s4 == (x[4] * 512) + (s3 \div 65536)
    IN  [val |-> <<s1 % 65536, s2 % 65536, s3 % 65536, s4 % 65536>>,
         carry |-> s4 >= 65536]

\* (high << 32) | low
QueueAddr(high, low) == Join32(low, Shl32(high))

\* u16, u32 and u64 from_le_bytes, and u16 and u32 to_le_bytes.
Le16(b) == b[1] + (256 * b[2])

Le32(b) == <<b[1] + (256 * b[2]), b[3] + (256 * b[4]), 0, 0>>

Le64(b) ==
    <<b[1] + (256 * b[2]), b[3] + (256 * b[4]), b[5] + (256 * b[6]),
      b[7] + (256 * b[8])>>

ToLe16(n) == <<n % 256, n \div 256>>

ToLe32(n) == <<n % 256, (n \div 256) % 256, 0, 0>>

\* The state of a call of process_queue: the device v, the RAM bytes, the
\* local variables of the loop, the statement that comes next (pc), the
\* DMA accesses made so far and the requests completed.  An access is
\* logged with the address and length asked for and the bytes touched:
\* `lo` is the first of them, as an offset from ram_ptr, below 0 when it
\* lies before the RAM bytes.
VqState(v, mem, build, garbage) ==
    [v |-> v, ram |-> mem, build |-> build, garbage |-> garbage,
     pc |-> "avail_idx", panic |-> FALSE, log |-> {}, done |-> <<>>,
     bytes |-> <<>>, avail_idx |-> 0, head_idx |-> 0,
     d0_addr |-> <<0, 0, 0, 0>>, d0_next |-> 0, sector |-> <<0, 0, 0, 0>>,
     d1_addr |-> <<0, 0, 0, 0>>, d1_len |-> <<0, 0, 0, 0>>, d1_next |-> 0,
     d2_addr |-> <<0, 0, 0, 0>>, current_used |-> 0,
     used_elem |-> <<0, 0, 0, 0>>]

\* x + y as the build computes it.
AddChecked(st, x, y) ==
    LET s == Add64(x, y)
    IN  IF s.carry /\ st.build = "debug"
        THEN [st |-> [st EXCEPT !.panic = TRUE], val |-> s.val]
        ELSE [st |-> st, val |-> s.val]

\* The bounds test of dma_read and dma_write, `addr + len > ram_size`, and
\* the first byte ram_ptr.add(addr) then names.
DmaBounds(st, addr, len) ==
    LET s == Add64(addr, U64Of(len))
    IN  [panic |-> s.carry /\ st.build = "debug",
         fits |-> SmallU64(s.val) /\ s.val[1] <= st.v.ram_size,
         lo |-> s.val[1] - len]

dma_read(st, addr, len) ==
    LET b == DmaBounds(st, addr, len)
    IN  IF b.panic
        THEN [st EXCEPT !.panic = TRUE, !.bytes = [i \in 1..len |-> 0]]
        ELSE IF ~b.fits
        THEN [st EXCEPT !.bytes = [i \in 1..len |-> 0],
                        !.log = @ \cup {[addr |-> addr, len |-> len,
                                          lo |-> 0, touched |-> FALSE]}]
        ELSE [st EXCEPT
                !.bytes = [i \in 1..len |->
                             IF b.lo + i - 1 \in DOMAIN st.ram
                             THEN st.ram[b.lo + i - 1] ELSE st.garbage],
                !.log = @ \cup {[addr |-> addr, len |-> len,
                                  lo |-> b.lo, touched |-> len > 0]}]

\* A write before the RAM bytes changes memory the model does not keep.
dma_write(st, addr, data) ==
    LET len == Len(data)
        b == DmaBounds(st, addr, len)
    IN  IF b.panic THEN [st EXCEPT !.panic = TRUE]
        ELSE IF ~b.fits
        THEN [st EXCEPT !.log = @ \cup {[addr |-> addr, len |-> len,
                                          lo |-> 0, touched |-> FALSE]}]
        ELSE [st EXCEPT
                !.ram = [a \in DOMAIN st.ram |->
                           IF a - b.lo + 1 \in 1..len
                           THEN data[a - b.lo + 1] ELSE st.ram[a]],
                !.log = @ \cup {[addr |-> addr, len |-> len,
                                  lo |-> b.lo, touched |-> len > 0]}]

\* dma_read(base + off, len), with the sum as the build computes it.
ReadAt(st, base, off, len) ==
    LET a == AddChecked(st, base, U64Of(off))
    IN  IF a.st.panic THEN [a.st EXCEPT !.bytes = [i \in 1..len |-> 0]]
        ELSE dma_read(st, a.val, len)

WriteAt(st, base, off, data) ==
    LET a == AddChecked(st, base, U64Of(off))
    IN  IF a.st.panic THEN a.st ELSE dma_write(st, a.val, data)

\* One statement of process_queue.
VqStep(st) ==
    LET v == st.v
        desc_addr == QueueAddr(v.queue_desc_high, v.queue_desc_low)
        avail_addr == QueueAddr(v.queue_avail_high, v.queue_avail_low)
        used_addr == QueueAddr(v.queue_used_high, v.queue_used_low)
    IN  CASE st.pc = "avail_idx" ->
               LET r == ReadAt(st, avail_addr, 2, 2)
               IN  [r EXCEPT !.avail_idx = Le16(r.bytes), !.pc = "while"]
          [] st.pc = "while" ->
               IF v.last_avail_idx = st.avail_idx
               THEN [st EXCEPT !.v.interrupt_status = @ \cup {0},
                               !.pc = "done"]
               ELSE IF v.queue_num = 0 THEN [st EXCEPT !.panic = TRUE]
               ELSE LET ring_offset == 4 + ((v.last_avail_idx % v.queue_num) * 2)
                        r == ReadAt(st, avail_addr, ring_offset, 2)
                    IN  [r EXCEPT !.head_idx = Le16(r.bytes),
                                  !.pc = "d0_addr"]
          [] st.pc = "d0_addr" ->
               LET r == ReadAt(st, desc_addr, st.head_idx * 16, 8)
               IN  [r EXCEPT !.d0_addr = Le64(r.bytes), !.pc = "d0_next"]
          [] st.pc = "d0_next" ->
               LET r == ReadAt(st, desc_addr, (st.head_idx * 16) + 12, 2)
               IN  [r EXCEPT !.d0_next = Le16(r.bytes), !.pc = "header"]
          [] st.pc = "header" ->
               LET r == dma_read(st, st.d0_addr, 16)
               IN  [r EXCEPT !.sector = Le64(SubSeq(r.bytes, 9, 16)),
                             !.pc = "d1_addr"]
          [] st.pc = "d1_addr" ->
               LET r == ReadAt(st, desc_addr, st.d0_next * 16, 8)
               IN  [r EXCEPT !.d1_addr = Le64(r.bytes), !.pc = "d1_len"]
          [] st.pc = "d1_len" ->
               LET r == ReadAt(st, desc_addr, (st.d0_next * 16) + 8, 4)
               IN  [r EXCEPT !.d1_len = Le32(r.bytes), !.pc = "d1_next"]
          [] st.pc = "d1_next" ->
               LET r == ReadAt(st, desc_addr, (st.d0_next * 16) + 12, 2)
               IN  [r EXCEPT !.d1_next = Le16(r.bytes), !.pc = "data"]
          [] st.pc = "data" ->
               LET offset == Mul512(st.sector)
                   disk == v.disk_image
                   rest == Len(disk) - offset.val[1]
                   len == IF SmallU64(st.d1_len) /\ st.d1_len[1] < rest
                          THEN st.d1_len[1] ELSE rest
               IN  IF offset.carry /\ st.build = "debug"
                   THEN [st EXCEPT !.panic = TRUE]
                   ELSE IF SmallU64(offset.val) /\ offset.val[1] < Len(disk)
                   THEN [dma_write(st, st.d1_addr,
                                   SubSeq(disk, offset.val[1] + 1,
                                          offset.val[1] + len))
                           EXCEPT !.pc = "d2_addr"]
                   ELSE [st EXCEPT !.pc = "d2_addr"]
          [] st.pc = "d2_addr" ->
               LET r == ReadAt(st, desc_addr, st.d1_next * 16, 8)
               IN  [r EXCEPT !.d2_addr = Le64(r.bytes), !.pc = "status"]
          [] st.pc = "status" ->
               [dma_write(st, st.d2_addr, <<0>>) EXCEPT !.pc = "current_used"]
          [] st.pc = "current_used" ->
               LET r == ReadAt(st, used_addr, 2, 2)
                   current_used == Le16(r.bytes)
                   e == AddChecked(r, used_addr,
                                   U64Of(4 + ((current_used % v.queue_num) * 8)))
               IN  [e.st EXCEPT !.current_used = current_used,
                                !.used_elem = e.val, !.pc = "used_id"]
          [] st.pc = "used_id" ->
               [dma_write(st, st.used_elem, ToLe32(st.head_idx))
                  EXCEPT !.pc = "used_len"]
          [] st.pc = "used_len" ->
               [WriteAt(st, st.used_elem, 4, <<0, 0, 0, 0>>)
                  EXCEPT !.pc = "used_idx"]
          [] st.pc = "used_idx" ->
               [WriteAt(st, used_addr, 2,
                        ToLe16((st.current_used + 1) % 65536))
                  EXCEPT !.pc = "advance"]
          [] st.pc = "advance" ->
               [st EXCEPT !.v.last_avail_idx = (@ + 1) % 65536,
                          !.done = Append(@, st.head_idx),
                          !.pc = "while"]

\* The statements in turn, each on the state the one before left, until
\* the loop ends or a statement panics.
RECURSIVE VqRun(_)
VqRun(st) ==
    IF st.pc = "done" \/ st.panic THEN st
    ELSE CHOOSE end \in {VqRun(next) : next \in {VqStep(st)}} : TRUE

process_queue(v, mem, build, garbage) == VqRun(VqState(v, mem, build, garbage))

\* write_u32 of a register other than queue-notify: val is a u64 with the
\* upper quarters 0.
VirtioWrite32(v, offset, val) ==
    CASE offset = 56 -> [v EXCEPT !.queue_num = val[1]]
      [] offset = 68 -> [v EXCEPT !.queue_ready = val[1]]
      [] offset = 100 -> [v EXCEPT !.interrupt_status =
                                     @ \ {b \in {0, 1} : (val[1] \div (2 ^ b)) % 2 = 1}]
      [] offset = 112 -> [v EXCEPT !.status = val[1]]
      [] offset = 128 -> [v EXCEPT !.queue_desc_low = val]
      [] offset = 132 -> [v EXCEPT !.queue_desc_high = val]
      [] offset = 144 -> [v EXCEPT !.queue_avail_low = val]
      [] offset = 148 -> [v EXCEPT !.queue_avail_high = val]
      [] offset = 160 -> [v EXCEPT !.queue_used_low = val]
      [] offset = 164 -> [v EXCEPT !.queue_used_high = val]
      [] OTHER -> v

VirtioTick(v) == 0 \in v.interrupt_status

(***************************************************************************)
(* system/memory/controller.rs: the memory controller of the System, the   *)
(* SimpleController with one latency or the DramController with its row    *)
(* buffer.  last_row is {} for None and {row} for Some(row); the row of an *)
(* address is addr & !2047.                                                *)
(***************************************************************************)
SimpleControllerNew(latency) == [kind |-> "Simple", latency |-> latency]

DramControllerNew(t_cas, t_ras, t_pre) ==
    [kind |-> "DRAM", last_row |-> {}, t_cas |-> t_cas, t_ras |-> t_ras,
     t_pre |-> t_pre]

RowOf(addr) == addr - (addr % 2048)

\* MemoryController::access_latency: the controller after it and the
\* latency.
access_latency(m, addr) ==
    IF m.kind = "Simple" THEN [ctl |-> m, latency |-> m.latency]
    ELSE IF m.last_row = {RowOf(addr)}
         THEN [ctl |-> m, latency |-> m.t_cas]
    ELSE IF m.last_row # {}
         THEN [ctl |-> [m EXCEPT !.last_row = {RowOf(addr)}],
               latency |-> m.t_pre + m.t_ras + m.t_cas]
    ELSE [ctl |-> [m EXCEPT !.last_row = {RowOf(addr)}],
          latency |-> m.t_ras + m.t_cas]

(***************************************************************************)
(* system/bus.rs Bus::tick: the CLINT raises the timer line once mtime has *)
(* reached mtimecmp, the PLIC the external line while an enabled source is *)
(* pending.  A source is idle until it is programmed (armed); an armed     *)
(* source fires at a tick the model does not fix, and then stays raised.   *)
(***************************************************************************)
BusNew == [clint |-> "idle", plic |-> "idle", devices |-> <<>>,
           plic_regs |-> PlicNew, enable_bitmap |-> EnableBitmapNew,
           clint_regs |-> ClintNew(1), uart |-> UartNew,
           uart_log |-> UartLogNew, virtio |-> VirtioBlockNew,
           vram |-> [a \in 0..(VRamSize - 1) |-> 0], dma |-> DmaNew,
           mem_controller |-> SimpleControllerNew(1)]

BusTick(b, timer_fires, ext_fires) ==
    [b EXCEPT !.clint = IF @ = "armed" /\ timer_fires THEN "due" ELSE @,
              !.plic = IF @ = "armed" /\ ext_fires THEN "pending" ELSE @]

TimerIrq(b) == b.clint = "due"

ExternalIrq(b) == b.plic = "pending"

(***************************************************************************)
(* system/bus.rs and system/memory/mod.rs: the devices of the bus, kept    *)
(* sorted by base address, and the RAM device.  A value is stored as its   *)
(* bytes, least significant first.                                         *)
(***************************************************************************)
\* Memory::new
MemoryNew(size, base_addr) ==
    [base |-> base_addr, size |-> size, bytes |-> [i \in 0..(size - 1) |-> 0]]

\* Bus::add_device: push, then the stable sort by base address.
add_device(b, dev) ==
    LET n == Len(b.devices)
        k == Cardinality({i \in 1..n : b.devices[i].base <= dev.base})
    IN  [b EXCEPT !.devices =
            SubSeq(@, 1, k) \o <<dev>> \o SubSeq(@, k + 1, n)]

\* Bus::find_device: the index of the first device whose range holds paddr,
\* 0 for None.
find_device(b, paddr) ==
    LET hits == {i \in DOMAIN b.devices :
                    /\ paddr >= b.devices[i].base
                    /\ paddr < b.devices[i].base + b.devices[i].size}
    IN  IF hits = {} THEN 0 ELSE CHOOSE i \in hits : \A j \in hits : i <= j

\* (val >> (i * 8)) & 0xFF: byte i of a 64-bit value, which is held as its
\* four 16-bit quarters, least significant first.
ByteOf(val, i) == (val[(i \div 2) + 1] \div (IF i % 2 = 0 THEN 1 ELSE 256)) % 256

\* uN::from_le_bytes of the n bytes from index off, widened to 64 bits.
FromLeBytes(bytes, off, n) ==
    LET B(k) == IF k < n THEN bytes[off + k] ELSE 0
    IN  [j \in 1..4 |-> B(2 * j - 2) + 256 * B(2 * j - 1)]

\* Memory::read_u8/u16/u32/u64: check_bounds panics when the access runs
\* past the end of the device.
MemRead(dev, offset, n) ==
    IF offset + n > dev.size THEN [panic |-> TRUE, val |-> <<0, 0, 0, 0>>]
    ELSE [panic |-> FALSE, val |-> FromLeBytes(dev.bytes, offset, n)]

\* A RAM whose writes lay the bytes down most significant first.
MemWriteBigEndian(dev, offset, n, val) ==
    IF offset + n > dev.size THEN [panic |-> TRUE, dev |-> dev]
    ELSE [panic |-> FALSE,
          dev |-> [dev EXCEPT !.bytes =
                      [k \in DOMAIN @ |->
                          IF k >= offset /\ k < offset + n
                          THEN ByteOf(val, offset + n - 1 - k)
                          ELSE @[k]]]]

\* Memory::write_u8/u16/u32/u64: val.to_le_bytes() copied to offset.
MemWrite(dev, offset, n, val) ==
    IF offset + n > dev.size THEN [panic |-> TRUE, dev |-> dev]
    ELSE [panic |-> FALSE,
          dev |-> [dev EXCEPT !.bytes =
                      [k \in DOMAIN @ |->
                          IF k >= offset /\ k < offset + n
                          THEN ByteOf(val, k - offset)
                          ELSE @[k]]]]

\* Bus::is_valid_address
is_valid_address(b, paddr) ==
    \E i \in DOMAIN b.devices :
        /\ paddr >= b.devices[i].base
        /\ paddr < b.devices[i].base + b.devices[i].size

\* Bus::read_u8/u16/u32/u64: 0 when no device holds the address.
BusRead(b, paddr, n) ==
    LET i == find_device(b, paddr)
    IN  IF i = 0 THEN [panic |-> FALSE, val |-> <<0, 0, 0, 0>>]
        ELSE MemRead(b.devices[i], paddr - b.devices[i].base, n)

\* Bus::write_u8/u16/u32/u64: dropped when no device holds the address.
BusWrite(b, paddr, n, val) ==
    LET i == find_device(b, paddr)
        w == MemWrite(b.devices[i], paddr - b.devices[i].base, n, val)
    IN  IF i = 0 THEN [panic |-> FALSE, bus |-> b]
        ELSE [panic |-> w.panic, bus |-> [b EXCEPT !.devices[i] = w.dev]]

(***************************************************************************)
(* core/units/lsu/unaligned.rs                                             *)
(***************************************************************************)
is_aligned(addr, size) == size = 0 \/ size = 1 \/ addr % size = 0

\* split_load: the bytes read at addr + i, i < size, each shifted to its
\* place.
split_load(b, addr, size) ==
    FromLeBytes([i \in 0..(size - 1) |-> ByteOf(BusRead(b, addr + i, 1).val, 0)],
                0, size)

\* split_store: byte i of val written to addr + i, from i on.
RECURSIVE split_store(_, _, _, _, _)
split_store(b, addr, size, val, i) ==
    IF i >= size THEN b
    ELSE split_store(BusWrite(b, addr + i, 1, <<ByteOf(val, i), 0, 0, 0>>).bus,
                     addr, size, val, i + 1)

\* A load or store of the memory stage: one bus access of the width when
\* the address is naturally aligned, else the byte-split access.
LsuLoad(b, addr, size) ==
    IF is_aligned(addr, size) THEN BusRead(b, addr, size)
    ELSE [panic |-> FALSE, val |-> split_load(b, addr, size)]

LsuStore(b, addr, size, val) ==
    IF is_aligned(addr, size) THEN BusWrite(b, addr, size, val)
    ELSE [panic |-> FALSE, bus |-> split_store(b, addr, size, val, 0)]

(***************************************************************************)
(* core/cache/mod.rs, core/cache/policies and core/prefetch: one level of  *)
(* the cache hierarchy.  A line is [tag, valid, dirty]; line w of set s is *)
(* lines[s * ways + w].                                                    *)
(***************************************************************************)
\* The seed of RandomPolicy.
RandomSeed == 123456789

\* A CacheConfig of a cache that is switched off.
CacheConfigOff ==
    [enabled |-> FALSE, size_bytes |-> 64, line_bytes |-> 64, ways |-> 1,
     policy |-> "LRU", prefetcher |-> "None", prefetch_degree |-> 0,
     prefetch_table_size |-> 1, latency |-> 1]

\* CacheSim::new, with LruPolicy::new, FifoPolicy::new, PlruPolicy::new,
\* RandomPolicy::new, NextLinePrefetcher::new and StridePrefetcher::new.  The
\* state of RandomPolicy and the usage word of PlruPolicy are sets of bits.
CacheSimNew(config) ==
    LET safe_ways == IF config.ways = 0 THEN 1 ELSE config.ways
        safe_line == IF config.line_bytes = 0 THEN 64 ELSE config.line_bytes
        safe_size == IF config.size_bytes = 0 THEN 4096 ELSE config.size_bytes
        num_sets == (safe_size \div safe_line) \div safe_ways
        sets == 0..(num_sets - 1)
        kind == IF config.policy \in {"FIFO", "Random", "PLRU"}
                THEN config.policy ELSE "LRU"
        pref == IF config.prefetcher \in {"NextLine", "Stride"}
                THEN config.prefetcher ELSE "None"
        size == config.prefetch_table_size
    IN  [lines |-> [i \in 0..(num_sets * safe_ways - 1) |->
                       [tag |-> 0, valid |-> FALSE, dirty |-> FALSE]],
         num_sets |-> num_sets, ways |-> safe_ways, line_bytes |-> safe_line,
         latency |-> config.latency, enabled |-> config.enabled,
         policy |-> [kind |-> kind, ways |-> safe_ways,
                     lru |-> [s \in sets |-> [i \in 1..safe_ways |-> i - 1]],
                     next_way |-> [s \in sets |-> 0],
                     usage |-> [s \in sets |-> {}],
                     state |-> {i \in 0..26 : (RandomSeed \div (2 ^ i)) % 2 = 1}],
         prefetcher |->
            [kind |-> pref, line_bytes |-> safe_line,
             degree |-> IF config.prefetch_degree = 0 THEN 1
                        ELSE config.prefetch_degree,
             table |-> [i \in 0..(size - 1) |->
                          [last_addr |-> 0, stride |-> 0, confidence |-> 0]]]]

\* ReplacementPolicy::update of the four policies.
update(p, set, way) ==
    CASE p.kind = "LRU" ->
            LET Other(x) == x # way
            IN  [p EXCEPT !.lru[set] = <<way>> \o SelectSeq(@, Other)]
      [] p.kind = "FIFO" ->
            IF p.next_way[set] = way
            THEN [p EXCEPT !.next_way[set] = (@ + 1) % p.ways]
            ELSE p
      [] p.kind = "PLRU" ->
            LET u == p.usage[set] \cup {way}
            IN  [p EXCEPT !.usage[set] =
                    IF 0..(p.ways - 1) \subseteq u THEN {way} ELSE u]
      [] OTHER -> p

\* ReplacementPolicy::get_victim of the four policies: the way, and the
\* policy after the call (RandomPolicy steps its xorshift state).  The
\* caches of the model have one or two ways.
get_victim(p, set) ==
    LET Xor(a, b) == (a \ b) \cup (b \ a)
        Shl(x, n) == {i + n : i \in x} \cap Bits
        Shr(x, n) == {i - n : i \in x} \cap Bits
        x1 == Xor(p.state, Shl(p.state, 13))
        x2 == Xor(x1, Shr(x1, 7))
        x3 == Xor(x2, Shl(x2, 17))
        zeros == {i \in 0..(p.ways - 1) : i \notin p.usage[set]}
    IN  CASE p.kind = "LRU" -> [way |-> p.lru[set][Len(p.lru[set])], policy |-> p]
          [] p.kind = "FIFO" -> [way |-> p.next_way[set], policy |-> p]
          [] p.kind = "PLRU" ->
                [way |-> IF zeros = {} THEN 0
                         ELSE CHOOSE i \in zeros : \A j \in zeros : i <= j,
                 policy |-> p]
          [] OTHER ->
                [way |-> IF p.ways > 1 /\ 0 \in x3 THEN 1 ELSE 0,
                 policy |-> [p EXCEPT !.state = x3]]

\* CacheSim::contains
contains(k, addr) ==
    LET set_index == (addr \div k.line_bytes) % k.num_sets
        tag == addr \div (k.line_bytes * k.num_sets)
    IN  /\ k.enabled
        /\ \E i \in 0..(k.ways - 1) :
              /\ k.lines[set_index * k.ways + i].valid
              /\ k.lines[set_index * k.ways + i].tag = tag

\* CacheSim::install_line: the cache after it, and the penalty.
install_line(k, addr, is_write, next_level_latency) ==
    LET set_index == (addr \div k.line_bytes) % k.num_sets
        tag == addr \div (k.line_bytes * k.num_sets)
        v == get_victim(k.policy, set_index)
        victim_idx == set_index * k.ways + v.way
    IN  [cache |-> [k EXCEPT
                      !.lines[victim_idx] =
                          [tag |-> tag, valid |-> TRUE, dirty |-> is_write],
                      !.policy = update(v.policy, set_index, v.way)],
         penalty |-> IF k.lines[victim_idx].valid /\ k.lines[victim_idx].dirty
                     THEN next_level_latency ELSE 0]

\* Prefetcher::observe of NextLinePrefetcher and StridePrefetcher: the
\* prefetcher after the call and the addresses to prefetch, in order.
observe(f, addr) ==
    LET idx == (addr \div 64) % Cardinality(DOMAIN f.table)
        entry == f.table[idx]
        current_stride == addr - entry.last_addr
        Aligned(a) == a - (a % f.line_bytes)
        e1 == IF current_stride = entry.stride
              THEN [entry EXCEPT !.confidence = IF @ < 3 THEN @ + 1 ELSE @]
              ELSE IF entry.confidence > 0
              THEN [entry EXCEPT !.confidence = @ - 1]
              ELSE [entry EXCEPT !.stride = current_stride]
    IN  CASE f.kind = "NextLine" ->
                [prefetcher |-> f,
                 targets |-> [j \in 1..f.degree |->
                                 Aligned(addr) + f.line_bytes * j]]
          [] f.kind = "Stride" ->
                [prefetcher |-> [f EXCEPT !.table[idx] =
                                    [e1 EXCEPT !.last_addr = addr]],
                 targets |-> IF current_stride = entry.stride
                                /\ entry.confidence >= 3
                             THEN [j \in 1..f.degree |->
                                      Aligned(addr + entry.stride * j)]
                             ELSE <<>>]
          [] OTHER -> [prefetcher |-> f, targets |-> <<>>]

\* The loop over the prefetches at the end of CacheSim::access.
RECURSIVE InstallPrefetches(_, _, _)
InstallPrefetches(k, targets, next_level_latency) ==
    IF targets = <<>> THEN k
    ELSE InstallPrefetches(
            IF contains(k, Head(targets)) THEN k
            ELSE install_line(k, Head(targets), FALSE, next_level_latency).cache,
            Tail(targets), next_level_latency)

\* CacheSim::access: the cache after it, and the pair (hit, penalty).
cache_access(k, addr, is_write, next_level_latency) ==
    LET set_index == (addr \div k.line_bytes) % k.num_sets
        tag == addr \div (k.line_bytes * k.num_sets)
        base_idx == set_index * k.ways
        hits == {i \in 0..(k.ways - 1) :
                    k.lines[base_idx + i].valid /\ k.lines[base_idx + i].tag = tag}
        hit == hits # {}
        way == CHOOSE i \in hits : \A j \in hits : i <= j
        inst == install_line(k, addr, is_write, next_level_latency)
        k1 == IF hit
              THEN [k EXCEPT !.policy = update(@, set_index, way),
                             !.lines[base_idx + way].dirty = @ \/ is_write]
              ELSE inst.cache
        obs == observe(k1.prefetcher, addr)
    IN  IF ~k.enabled THEN [cache |-> k, hit |-> FALSE, penalty |-> 0]
        ELSE [cache |-> InstallPrefetches(
                            [k1 EXCEPT !.prefetcher = obs.prefetcher],
                            obs.targets, next_level_latency),
              hit |-> hit,
              penalty |-> IF hit THEN 0 ELSE inst.penalty]

(***************************************************************************)
(* Cpu::tick                                                               *)
(***************************************************************************)
\* Cpu::irq_to_trap
irq_to_trap(bit) ==
    CASE bit = MIP_MEIP -> MkTrap("ExternalInterrupt", 0)
      [] bit = MIP_MSIP -> MkTrap("MachineSoftwareInterrupt", 0)
      [] bit = MIP_MTIP -> MkTrap("MachineTimerInterrupt", 0)
      [] bit = MIP_SEIP -> MkTrap("ExternalInterrupt", 0)
      [] bit = MIP_SSIP -> MkTrap("SupervisorSoftwareInterrupt", 0)
      [] bit = MIP_STIP -> MkTrap("SupervisorTimerInterrupt", 0)
      [] OTHER -> MkTrap("MachineTimerInterrupt", 0)

\* The closure check of tick: is the interrupt `bit` taken now?
IrqCheck(c, bit, enable_bit, deleg_bit) ==
    LET pending == c.csrs.mip \cap bit # {}
        enabled == c.csrs.mie \cap enable_bit # {}
        delegated == c.csrs.mideleg \cap deleg_bit # {}
        target_priv == IF delegated THEN 1 ELSE 3
        m_global_ie == c.csrs.mstatus \cap MSTATUS_MIE # {}
        s_global_ie == c.csrs.mstatus \cap MSTATUS_SIE # {}
    IN  /\ pending
        /\ enabled
        /\ \/ c.privilege < target_priv
           \/ /\ c.privilege = target_priv
              /\ \/ target_priv = 3 /\ m_global_ie
                 \/ target_priv = 1 /\ s_global_ie

\* The order in which tick tries the interrupts: <<mip bit, mie bit, mideleg bit>>.
IrqOrder ==
    <<<<MIP_MEIP, MIE_MEIP, {11}>>, <<MIP_MSIP, MIE_MSIP, {3}>>,
      <<MIP_MTIP, MIE_MTIE, {7}>>, <<MIP_SEIP, MIE_SEIP, {9}>>,
      <<MIP_SSIP, MIE_SSIP, {1}>>, <<MIP_STIP, MIE_STIE, {5}>>>>

\* The mip bit of the interrupt tick takes, {} when it takes none.
TakenIrq(c) ==
    LET ok == {i \in DOMAIN IrqOrder :
                  IrqCheck(c, IrqOrder[i][1], IrqOrder[i][2], IrqOrder[i][3])}
    IN  IF ok = {} THEN {}
        ELSE IrqOrder[CHOOSE i \in ok : \A j \in ok : i <= j][1]

\* Step 2 of tick: the timer and external lines into mip.
UpdateMip(mip, timer_irq, external_irq) ==
    LET m1 == IF timer_irq THEN mip \cup MIP_MTIP ELSE mip \ MIP_MTIP
    IN  IF external_irq THEN m1 \cup MIP_MEIP ELSE m1 \ MIP_MEIP

\* The stages of one cycle run front to back: IF, ID, EX, MEM, WB.
RunStagesFrontToBack(c, miss) ==
    LET f == fetch_stage(c)
        d == decode_stage(f)
        e == execute_stage(d)
        m == mem_stage(e, miss)
        l == [m EXCEPT !.wb_latch = m.mem_wb]
        w == wb_stage(l)
    IN  [w EXCEPT !.regs = RegWrite(@, 0, 0), !.ghost.ran = TRUE]

\* The stages of one cycle: WB (after which a cycle with an exit code set
\* ends), the write-back latch, MEM, EX, then the load-use check and ID,
\* IF; last the write of 0 to x0.  IF/ID holds one
\* instruction, which ID consumes, so IF runs whenever ID does.
RunStages(c, miss) ==
    LET w == wb_stage(c)
        l == [w EXCEPT !.wb_latch = w.mem_wb]
        m == mem_stage(l, miss)
        x == execute_stage(m)
        e == [x EXCEPT !.ghost.after_ex = AfterEx(x)]
        is_load_use_hazard == need_stall_load_use(e.id_ex, e.if_id.inst)
        d == IF is_load_use_hazard
             THEN [e EXCEPT !.id_ex = IdExBubble,
                            !.stats.stalls_data = @ + 1,
                            !.ghost.hazard = TRUE,
                            !.ghost.held = @ \cup {e.if_id.seq}]
             ELSE fetch_stage(decode_stage(e))
    IN  IF w.exit_code # {} THEN w
        ELSE [d EXCEPT !.regs = RegWrite(@, 0, 0), !.ghost.ran = TRUE]

\* Cpu::take_exit: Option::take
take_exit(c) == [cpu |-> [c EXCEPT !.exit_code = {}], ret |-> c.exit_code]

\* A tick that runs the stages whatever the stall count is.
tick_through_stall(c, timer_irq, external_irq, miss) ==
    LET c1 == [c EXCEPT !.csrs.mip = UpdateMip(@, timer_irq, external_irq),
                        !.ghost.exec = NoExec,
                        !.ghost.ran = FALSE,
                        !.ghost.hazard = FALSE,
                        !.ghost.fetch = "none",
                        !.ghost.after_ex = NoAfterEx]
        irq == TakenIrq(c1)
    IN  IF irq # {}
        THEN trap(c1, irq_to_trap(irq), c1.pc)
        ELSE RunStages([c1 EXCEPT !.stats.cycles = @ + 1], miss)

tick(c, timer_irq, external_irq, miss) ==
    LET c1 == [c EXCEPT !.csrs.mip = UpdateMip(@, timer_irq, external_irq),
                        !.ghost.exec = NoExec,
                        !.ghost.ran = FALSE,
                        !.ghost.hazard = FALSE,
                        !.ghost.fetch = "none",
                        !.ghost.after_ex = NoAfterEx]
        irq == TakenIrq(c1)
    IN  IF irq # {}
        THEN trap(c1, irq_to_trap(irq), c1.pc)
        ELSE IF c1.stall_cycles > 0
        THEN [c1 EXCEPT !.stall_cycles = @ - 1,
                        !.stats.cycles = @ + 1,
                        !.stats.stalls_mem = @ + 1]
        ELSE RunStages([c1 EXCEPT !.stats.cycles = @ + 1], miss)

(***************************************************************************)
(* Cpu::new: the state after construction.                                 *)
(***************************************************************************)
CsrsNew ==
    [mstatus |-> {33, 35}, sstatus |-> {}, mepc |-> 0, sepc |-> 0,
     mtvec |-> 0, stvec |-> 0, scause |-> CauseWord(FALSE, 0),
     mcause |-> CauseWord(FALSE, 0), mtval |-> 0, stval |-> 0,
     medeleg |-> {}, mideleg |-> {}, mip |-> {}, mie |-> {},
     satp |-> [mode |-> 0, ppn |-> 0]]

StatsNew ==
    [cycles |-> 0, stalls_mem |-> 0, stalls_data |-> 0, traps_taken |-> 0,
     instructions_retired |-> 0, stalls_control |-> 0,
     branch_predictions |-> 0, branch_mispredictions |-> 0,
     dcache_hits |-> 0, dcache_misses |-> 0]

\* What `last` keeps of the state an operation started in.
PreOf(c) == [privilege |-> c.privilege, mstatus |-> c.csrs.mstatus,
             sstatus |-> c.csrs.sstatus]

\* PyCpu::run between its iterations: the cycle count it started at, its
\* limit, and what it returned (Ok(None) is ret = {}, Ok(Some(code)) is
\* ret = {code}; "raised" is an Err).
NoRun == [state |-> "idle", start_cycles |-> 0, limit |-> 0, ret |-> {}]

NoOp == [op |-> "new", trap |-> NoTrap, epc |-> 0, addr |-> 0, irq |-> {},
         access |-> "None", leaf |-> 0, hit |-> FALSE, width |-> 0,
         val |-> <<0, 0, 0, 0>>, stored |-> <<>>, resv |-> {}, ret |-> {},
         run |-> NoRun,
         pre |-> [privilege |-> 3, mstatus |-> {33, 35}, sstatus |-> {}]]

\* The registers the programs of the model name: x0, ra, sp, x3, a0, a1, a7,
\* and f0, f1; x7 and x29 are what the rs2 field of an ADDI with the
\* immediate 7 or 93 names.
RegIdx == {0, 1, 2, 3, 7, 10, 11, 17, 29}

FRegIdx == {0, 1}

\* isa/abi.rs
REG_SP == 2

\* The RAM holds ImemWords instruction words from address 0 and the data
\* word at DataAddr; it is zeroed at construction.
ProgLen == 3

KernelAddr == 8

ImemWords == 0..((KernelAddr \div 4) + ProgLen - 1)

GhostNew ==
    [arch |-> [i \in RegIdx |-> 0], farch |-> [i \in FRegIdx |-> 0],
     nseq |-> 1, exec |-> NoExec, retired |-> <<>>, held |-> {},
     ran |-> FALSE, hazard |-> FALSE, fetch |-> "none", fetched |-> <<>>,
     after_ex |-> NoAfterEx]

InitNew ==
    /\ privilege = 3
    /\ pc = 0
    /\ csrs = CsrsNew
    /\ regs = [i \in RegIdx |-> 0]
    /\ fregs = [i \in FRegIdx |-> 0]
    /\ if_id = IfIdDefault
    /\ id_ex = IdExDefault
    /\ ex_mem = ExMemDefault
    /\ mem_wb = MemWbDefault
    /\ wb_latch = MemWbDefault
    /\ stall_cycles = 0
    /\ stats = StatsNew
    /\ exit_code = {}
    /\ ram = [a \in {DataAddr, DataAddr + 8} |-> 0]
    /\ imem = [i \in ImemWords |-> ZeroInst]
    /\ pt_mem = [a \in PteAddrs |-> PteZero]
    /\ mmu = MmuNew
    /\ l1_d_cache = CacheSimNew(CacheConfigOff)
    /\ load_reservation = {}
    /\ branch_predictor = BranchPredictorNew
    /\ bus = BusNew
    /\ ghost = GhostNew
    /\ halted = FALSE
    /\ last = NoOp
    /\ steps = 0

(***************************************************************************)
(* sim/loader.rs setup_kernel_load, and main.rs: the direct execution of a *)
(* flat binary, which starts in U-mode.  An image is the instruction words *)
(* of a binary and its one data word.                                      *)
(***************************************************************************)
NoImage == [code |-> <<>>, data |-> 0]

\* Bus::load_binary_at: the image's words from word index `at`.
LoadBinaryAt(c, image, at) ==
    [c EXCEPT !.imem = [i \in DOMAIN c.imem |->
                           IF i >= at /\ i < at + Len(image.code)
                           THEN image.code[i - at + 1] ELSE c.imem[i]],
              !.ram = IF Len(image.code) > 0
                      THEN [a \in DOMAIN c.ram |-> image.data] ELSE c.ram]

setup_kernel_load(c, kernel) ==
    LET k == LoadBinaryAt(c, kernel, KernelAddr \div 4)
        c0 == [k EXCEPT !.pc = 0, !.privilege = 3, !.imem[0] = MretInst]
        c1 == csr_write(c0, MEPC, KernelAddr)
        c2 == csr_write(c1, MSTATUS, {11} \cup MSTATUS_MPIE \cup MSTATUS_FS_INIT)
        c3 == csr_write(c2, MEDELEG, Bits)
        c4w == csr_write(c3, MIDELEG, Bits)
        c4 == csr_write(c4w, SATP, [mode |-> SATP_MODE_BARE, ppn |-> 0])
        c5 == [c4 EXCEPT !.regs = RegWrite(RegWrite(@, REG_A0, 0), REG_A1, 0)]
    IN  [c5 EXCEPT !.ghost.arch = c5.regs]

\* config.general.user_stack_size
UserStackSize == 16

SetupDirectMode(c, binary) ==
    LET b == LoadBinaryAt(c, binary, 0)
        c1 == [b EXCEPT !.pc = 0,
                        !.regs = RegWrite(@, REG_SP, UserStackSize),
                        !.privilege = 0]
    IN  [c1 EXCEPT !.ghost.arch = c1.regs]

(***************************************************************************)
(* The CSR machine: the operations of the trap unit, called one at a time  *)
(* (by the execute stage, the loader and the unit tests).                  *)
(***************************************************************************)
\* Values written to the CSRs.
CsrWrites ==
    {<<MSTATUS, MSTATUS_SIE \cup MSTATUS_MPIE \cup {11}>>,
     <<MSTATUS, MSTATUS_MIE \cup {12}>>,
     <<SSTATUS, MSTATUS_SIE \cup MSTATUS_SUM>>,
     <<SSTATUS, {}>>,
     <<MEDELEG, {}>>,
     <<MIDELEG, {1, 5, 9}>>,
     <<STVEC, 33>>,
     <<MTVEC, 49>>,
     <<CSR_SIM_PANIC, 2>>,
     <<CSR_SIM_PANIC, 65>>}

EpcVals == {4, 6}

\* The causes the machine raises at privilege p.
TrapCauses(p) ==
    {MkTrap("IllegalInstruction", 7), MkTrap("LoadPageFault", 24),
     MkTrap("Breakpoint", 4),
     MkTrap(CASE p = 0 -> "EnvironmentCallFromUMode"
              [] p = 1 -> "EnvironmentCallFromSMode"
              [] OTHER -> "EnvironmentCallFromMMode", 0),
     MkTrap("SupervisorTimerInterrupt", 0),
     MkTrap("MachineTimerInterrupt", 0),
     MkTrap("ExternalInterrupt", 0)}

Running == ~halted /\ steps < MaxSteps

LoaderSetup ==
    /\ last.op = "new"
    /\ SetCpu(setup_kernel_load(Cpu, NoImage))
    /\ last' = [NoOp EXCEPT !.op = "setup_kernel_load", !.pre = PreOf(Cpu)]
    /\ UNCHANGED <<bus, steps>>

DirectSetup ==
    /\ last.op = "new"
    /\ SetCpu(SetupDirectMode(Cpu, NoImage))
    /\ last' = [NoOp EXCEPT !.op = "direct_mode", !.pre = PreOf(Cpu)]
    /\ UNCHANGED <<bus, steps>>

\* The states a call of trap() can end in: a debug build panics on the
\* shift by 64 or more.
TrapOutcomes(c, cause, epc) ==
    {trap(c, cause, epc)} \cup (IF TrapPanics(cause) THEN {Panic(c)} ELSE {})

CsrWriteCall ==
    /\ Running
    /\ \E w \in CsrWrites :
          /\ IF w[1] = CSR_SIM_PANIC
             THEN /\ \E r \in TrapOutcomes(Cpu, MkTrap("RequestedTrap", w[2]), pc) :
                        SetCpu(r)
                  /\ last' = [NoOp EXCEPT !.op = "csr_write",
                                           !.trap = MkTrap("RequestedTrap", w[2]),
                                           !.epc = pc, !.addr = w[1],
                                           !.pre = PreOf(Cpu)]
             ELSE /\ SetCpu(csr_write(Cpu, w[1], w[2]))
                  /\ last' = [NoOp EXCEPT !.op = "csr_write", !.addr = w[1],
                                           !.pre = PreOf(Cpu)]
    /\ steps' = steps + 1
    /\ UNCHANGED bus

TrapCall ==
    /\ Running
    /\ \E cause \in TrapCauses(privilege), epc \in EpcVals :
          /\ SetCpu(trap(Cpu, cause, epc))
          /\ last' = [NoOp EXCEPT !.op = "trap", !.trap = cause, !.epc = epc,
                                   !.pre = PreOf(Cpu)]
    /\ steps' = steps + 1
    /\ UNCHANGED bus

MretCall ==
    /\ Running
    /\ SetCpu(do_mret(Cpu))
    /\ last' = [NoOp EXCEPT !.op = "mret", !.pre = PreOf(Cpu)]
    /\ steps' = steps + 1
    /\ UNCHANGED bus

SretCall ==
    /\ Running
    /\ SetCpu(do_sret(Cpu))
    /\ last' = [NoOp EXCEPT !.op = "sret", !.pre = PreOf(Cpu)]
    /\ steps' = steps + 1
    /\ UNCHANGED bus

NextCsr ==
    \/ LoaderSetup
    \/ DirectSetup
    \/ CsrWriteCall
    \/ TrapCall
    \/ MretCall
    \/ SretCall

SpecCsr == InitNew /\ [][NextCsr]_vars

(***************************************************************************)
(* CSRRW instructions in the execute stage, one after the other.  last.val *)
(* is the value written.                                                   *)
(***************************************************************************)
\* CSRRW x2, csr, x1 as decode_stage hands it to the execute stage, with
\* the value val read from x1.
CsrrwIdEx(addr, val, pc_) ==
    [IdExDefault EXCEPT
        !.pc = pc_, !.inst = IType("CSRRW", 2, 1, addr), !.rs1 = 1, !.rd = 2,
        !.rv1 = val, !.imm = addr,
        !.ctrl = [CtrlDefault EXCEPT !.is_system = TRUE, !.reg_write = TRUE,
                                     !.csr_addr = addr, !.csr_op = "Rw"]]

\* The registers written and the values: status and interrupt words with
\* their supervisor views, an exception PC, a read-only identifier and the
\* simulator's trap request.
CsrrwWrites ==
    {<<MSTATUS, MSTATUS_SIE \cup MSTATUS_MIE>>, <<MSTATUS, {}>>,
     <<SSTATUS, MSTATUS_SIE \cup MSTATUS_SUM>>, <<SSTATUS, {}>>,
     <<MIDELEG, {1, 5, 9}>>, <<MIDELEG, {}>>,
     <<MIP, MIP_STIP>>, <<MIP, {}>>,
     <<SIP, MIP_SSIP>>, <<SIP, {}>>,
     <<SIE, MIE_SSIP>>, <<SIE, {}>>,
     <<MEPC, 8>>, <<MEPC, 0>>,
     <<MHARTID, 0>>,
     <<CSR_SIM_PANIC, 0>>}

CsrrwCall ==
    /\ Running
    /\ \E w \in CsrrwWrites :
          /\ SetCpu(execute_stage([Cpu EXCEPT !.id_ex = CsrrwIdEx(w[1], w[2], pc)]))
          /\ last' = [NoOp EXCEPT
                        !.op = "csrrw", !.addr = w[1], !.val = w[2],
                        !.trap = IF w[1] = CSR_SIM_PANIC
                                 THEN MkTrap("RequestedTrap", w[2]) ELSE NoTrap,
                        !.pre = PreOf(Cpu)]
    /\ steps' = steps + 1
    /\ UNCHANGED bus

NextCsrrw ==
    \/ LoaderSetup
    \/ DirectSetup
    \/ CsrrwCall

SpecCsrrw == InitNew /\ [][NextCsrrw]_vars

(***************************************************************************)
(* The MMU machine: after the loader, the kernel's MRET and SRET, its      *)
(* writes of satp and of page-table entries, and calls of Mmu::translate   *)
(* (by the fetch and memory stages), one at a time.                        *)
(***************************************************************************)
MaxMmuSteps == 5

\* The root page table, and the two tables its entries can point to.
RootPpn == 1

SatpVals == {[mode |-> SATP_MODE_BARE, ppn |-> 0],
             [mode |-> SATP_MODE_SV39, ppn |-> RootPpn]}

\* The virtual addresses translated: one in each of the first two
\* gigabytes, that is, entries 0 and 1 of the root table, and one in the
\* second 4 KiB page of the first gigabyte.
VAddrs == {8, 2 ^ 30, 4104}

AccessTypes == {"Fetch", "Read", "Write"}

Pointer(ppn) == [PteZero EXCEPT !.v = TRUE, !.ppn = ppn]

\* The entries the kernel stores: pointers to the tables at pages 2 and 3,
\* and leaves with A and D clear: a user page with every permission, and a
\* read-only supervisor page.
PteVals ==
    {Pointer(2), Pointer(3),
     [PteZero EXCEPT !.v = TRUE, !.r = TRUE, !.w = TRUE, !.x = TRUE,
                     !.u = TRUE, !.ppn = 4],
     [PteZero EXCEPT !.v = TRUE, !.r = TRUE, !.ppn = 5]}

MmuRunning == ~halted /\ last.op # "new" /\ steps < MaxMmuSteps

SatpWrite ==
    /\ MmuRunning
    /\ \E v \in SatpVals :
          /\ SetCpu(csr_write(Cpu, SATP, v))
          /\ last' = [NoOp EXCEPT !.op = "csr_write", !.addr = SATP,
                                   !.pre = PreOf(Cpu)]
    /\ steps' = steps + 1
    /\ UNCHANGED bus

PteStore ==
    /\ MmuRunning
    /\ \E a \in PteAddrs, v \in PteVals :
          /\ SetCpu([Cpu EXCEPT !.pt_mem = WritePte(@, a, v)])
          /\ last' = [NoOp EXCEPT !.op = "pte_store", !.addr = a,
                                   !.pre = PreOf(Cpu)]
    /\ steps' = steps + 1
    /\ UNCHANGED bus

TranslateCall ==
    /\ MmuRunning
    /\ \E vaddr \in VAddrs, access \in AccessTypes :
          LET res == translate(Cpu, vaddr, access)
          IN  /\ SetCpu(res.cpu)
              /\ last' = [NoOp EXCEPT !.op = "translate", !.addr = vaddr,
                                       !.access = access, !.trap = res.trap,
                                       !.leaf = res.leaf, !.hit = res.hit,
                                       !.pre = PreOf(Cpu)]
    /\ steps' = steps + 1
    /\ UNCHANGED bus

NextMmu ==
    \/ LoaderSetup
    \/ MretCall
    \/ SretCall
    \/ SatpWrite
    \/ PteStore
    \/ TranslateCall

SpecMmu == InitNew /\ [][NextMmu]_vars

(***************************************************************************)
(* The machine: a program is loaded (in full-system mode behind the MRET   *)
(* trampoline, or for direct execution), registers and interrupt sources   *)
(* are set up through the Cpu's public interface, and the Cpu is ticked.   *)
(***************************************************************************)
MaxTicks == 8

\* The instruction words of the programs.
Alphabet ==
    {IType("ADDI", 1, 0, 3), IType("ADDI", 1, 1, 1), IType("ADDI", 0, 1, 2),
     RType("ADD", 2, 1, 1, 0),
     IType("LD", 1, 0, DataAddr), IType("LD", 0, 0, DataAddr),
     SType("SD", 0, 1, DataAddr),
     IType("FLD", 1, 0, DataAddr), RType("FMV_X_D", 2, 1, 0, FCLASS_MV_X_F)}

\* The data word of an image.
DataWord == 66

Images == {[code |-> p, data |-> DataWord] : p \in [1..ProgLen -> Alphabet]}

Loaded ==
    last.op \in {"setup_kernel_load", "direct_mode", "irq_setup", "paging_setup",
                 "tick", "take_exit", "mstatus_setup"}

BootKernel ==
    /\ last.op = "new"
    /\ \E kernel \in Images : SetCpu(setup_kernel_load(Cpu, kernel))
    /\ last' = [NoOp EXCEPT !.op = "setup_kernel_load", !.pre = PreOf(Cpu)]
    /\ UNCHANGED <<bus, steps>>

RunBinary ==
    /\ last.op = "new"
    /\ \E binary \in Images : SetCpu(SetupDirectMode(Cpu, binary))
    /\ last' = [NoOp EXCEPT !.op = "direct_mode", !.pre = PreOf(Cpu)]
    /\ UNCHANGED <<bus, steps>>

\* Values written to registers from outside the program.
RegWrites == {<<0, 5>>, <<1, 5>>}

\* RegisterFile::write called on cpu.regs: of x0 at any time, of another
\* register once the binary is loaded for direct execution.
RegWriteCall ==
    /\ Loaded
    /\ \E w \in RegWrites :
          /\ w[1] = 0 \/ last.op = "direct_mode"
          /\ SetCpu([Cpu EXCEPT !.regs = RegWrite(@, w[1], w[2]),
                                !.ghost.arch = RegWrite(@, w[1], w[2])])
    /\ UNCHANGED <<bus, last, steps>>

\* The interrupt set-ups: each is the CSR writes of the firmware and the
\* source it programs.
IrqSetups ==
    {[writes |-> <<<<MIE, MIE_MTIE>>>>, clint |-> "armed", plic |-> "idle"],
     [writes |-> <<<<MIDELEG, MIP_SSIP \cup MIP_STIP \cup MIP_SEIP>>,
                   <<MIE, MIE_MEIP>>>>,
      clint |-> "idle", plic |-> "armed"]}

RECURSIVE CsrWriteAll(_, _)
CsrWriteAll(c, writes) ==
    IF writes = <<>> THEN c
    ELSE CsrWriteAll(csr_write(c, Head(writes)[1], Head(writes)[2]), Tail(writes))

IrqSetup ==
    /\ last.op \in {"setup_kernel_load", "direct_mode"}
    /\ \E s \in IrqSetups :
          /\ SetCpu(CsrWriteAll(Cpu, s.writes))
          /\ bus' = [bus EXCEPT !.clint = s.clint, !.plic = s.plic]
    /\ last' = [NoOp EXCEPT !.op = "irq_setup", !.pre = PreOf(Cpu)]
    /\ UNCHANGED steps

\* What a tick leaves open: whether an armed source fires in it, and
\* whether the data access of the memory stage misses the cache.
MayFire(source) == IF source = "armed" THEN BOOLEAN ELSE {FALSE}

MayMiss(ex) ==
    IF ex.trap = NoTrap /\ (ex.ctrl.mem_read \/ ex.ctrl.mem_write)
    THEN BOOLEAN ELSE {FALSE}

\* The interrupt a tick takes, given the lines the bus raises.
TickIrq(c, timer_irq, external_irq) ==
    TakenIrq([c EXCEPT !.csrs.mip = UpdateMip(@, timer_irq, external_irq)])

Tick ==
    /\ Loaded
    /\ ~halted
    /\ steps < MaxTicks
    /\ \E timer_fires \in MayFire(bus.clint), ext_fires \in MayFire(bus.plic),
          miss \in MayMiss(ex_mem) :
          LET b == BusTick(bus, timer_fires, ext_fires)
              irq == TickIrq(Cpu, TimerIrq(b), ExternalIrq(b))
          IN  /\ bus' = b
              /\ SetCpu(tick(Cpu, TimerIrq(b), ExternalIrq(b), miss))
              /\ last' = [NoOp EXCEPT
                            !.op = "tick",
                            !.irq = irq,
                            !.trap = IF irq = {} THEN NoTrap ELSE irq_to_trap(irq),
                            !.epc = pc,
                            !.pre = PreOf(Cpu)]
    /\ steps' = steps + 1

Next ==
    \/ BootKernel
    \/ RunBinary
    \/ RegWriteCall
    \/ IrqSetup
    \/ Tick

Spec == InitNew /\ [][Next]_vars

(***************************************************************************)
(* The machine running a kernel that uses the system instructions: the     *)
(* kernel is loaded behind the MRET trampoline, its page table and satp    *)
(* are set up, and the Cpu is ticked.                                      *)
(***************************************************************************)
\* The instruction words of the kernels.
SysAlphabet == {SfenceInst, IType("ADDI", 1, 0, 3)}

SysImages == {[code |-> p, data |-> DataWord] : p \in [1..ProgLen -> SysAlphabet]}

BootSys ==
    /\ last.op = "new"
    /\ \E kernel \in SysImages : SetCpu(setup_kernel_load(Cpu, kernel))
    /\ last' = [NoOp EXCEPT !.op = "setup_kernel_load", !.pre = PreOf(Cpu)]
    /\ UNCHANGED <<bus, steps>>

\* The kernel's address space: entry 0 of the root table maps the first
\* gigabyte onto itself as a supervisor page with A and D set, and satp
\* selects Sv39 with that root table.
PagingSetup ==
    /\ last.op = "setup_kernel_load"
    /\ LET leaf == [PteZero EXCEPT !.v = TRUE, !.r = TRUE, !.w = TRUE,
                                   !.x = TRUE, !.a = TRUE, !.d = TRUE]
           c1 == [Cpu EXCEPT !.pt_mem = WritePte(@, RootPpn * 4096, leaf)]
       IN  SetCpu(csr_write(c1, SATP, [mode |-> SATP_MODE_SV39, ppn |-> RootPpn]))
    /\ last' = [NoOp EXCEPT !.op = "paging_setup", !.pre = PreOf(Cpu)]
    /\ UNCHANGED <<bus, steps>>

NextSys ==
    \/ BootSys
    \/ PagingSetup
    \/ Tick

SpecSys == InitNew /\ [][NextSys]_vars

(***************************************************************************)
(* The bus: devices are registered, then the memory stage stores and loads *)
(* through it.  last.val is the value stored or loaded; last.stored, for a *)
(* load, is the value of the store of the same address and width that came *)
(* directly before it (<<>> when none did).                                 *)
(***************************************************************************)
MaxDevices == 2

MaxBusSteps == 2

BusAddrs == {0, 1, 6, 12, 16, 17}

\* 0x01020304, 0x1FF and 0x0102030405060708, in 16-bit quarters.
StoreVals == {<<772, 258, 0, 0>>, <<511, 0, 0, 0>>, <<1800, 1286, 772, 258>>}

\* The devices registered are RAMs at 0 and at 16, and one at 4 whose range
\* runs into the first.
AddDevice ==
    /\ last.op \in {"new", "add_device"}
    /\ Len(bus.devices) < MaxDevices
    /\ \E dev \in {MemoryNew(8, 0), MemoryNew(8, 4), MemoryNew(4, 16)} :
          /\ \A i \in DOMAIN bus.devices : bus.devices[i].base # dev.base
          /\ bus' = add_device(bus, dev)
          /\ last' = [NoOp EXCEPT !.op = "add_device", !.addr = dev.base]
    /\ SetCpu(Cpu)
    /\ UNCHANGED steps

BusStore ==
    /\ last.op # "new" /\ ~halted /\ steps < MaxBusSteps
    /\ \E addr \in BusAddrs, size \in {1, 2, 4, 8}, v \in StoreVals :
          LET w == LsuStore(bus, addr, size, v)
          IN  /\ bus' = w.bus
              /\ SetCpu(IF w.panic THEN Panic(Cpu) ELSE Cpu)
              /\ last' = [NoOp EXCEPT !.op = "store", !.addr = addr,
                                       !.width = size, !.val = v]
    /\ steps' = steps + 1

BusLoad ==
    /\ last.op # "new" /\ ~halted /\ steps < MaxBusSteps
    /\ \E addr \in BusAddrs, size \in {1, 2, 4, 8} :
          LET r == LsuLoad(bus, addr, size)
          IN  /\ SetCpu(IF r.panic THEN Panic(Cpu) ELSE Cpu)
              /\ last' = [NoOp EXCEPT
                            !.op = "load", !.addr = addr, !.width = size,
                            !.val = r.val,
                            !.stored = IF /\ last.op = "store"
                                          /\ last.addr = addr
                                          /\ last.width = size
                                       THEN last.val ELSE <<>>]
    /\ steps' = steps + 1
    /\ UNCHANGED bus

\* Bus::read_uN and Bus::write_uN called as the fetch stage, the page-table
\* walk and the loader call them: with no alignment test before the call.
BusReadCall ==
    /\ last.op # "new" /\ ~halted /\ steps < MaxBusSteps
    /\ \E addr \in BusAddrs, size \in {1, 2, 4, 8} :
          LET r == BusRead(bus, addr, size)
          IN  /\ SetCpu(IF r.panic THEN Panic(Cpu) ELSE Cpu)
              /\ last' = [NoOp EXCEPT !.op = "bus_read", !.addr = addr,
                                       !.width = size, !.val = r.val]
    /\ steps' = steps + 1
    /\ UNCHANGED bus

BusWriteCall ==
    /\ last.op # "new" /\ ~halted /\ steps < MaxBusSteps
    /\ \E addr \in BusAddrs, size \in {1, 2, 4, 8}, v \in StoreVals :
          LET w == BusWrite(bus, addr, size, v)
          IN  /\ bus' = w.bus
              /\ SetCpu(IF w.panic THEN Panic(Cpu) ELSE Cpu)
              /\ last' = [NoOp EXCEPT !.op = "bus_write", !.addr = addr,
                                       !.width = size, !.val = v]
    /\ steps' = steps + 1

NextBus ==
    \/ AddDevice
    \/ BusStore
    \/ BusLoad
    \/ BusReadCall
    \/ BusWriteCall

SpecBus == InitNew /\ [][NextBus]_vars

(***************************************************************************)
(* LR, SC and stores in the memory stage, and traps, one at a time.        *)
(* last.resv is {a} when an LR of address a has been followed by no store  *)
(* to a, no SC and no trap, and {} otherwise.                              *)
(***************************************************************************)
\* LR.D x5, (a); SC.D x5, v, (a); SD v, (a) as the execute stage hands them
\* to the memory stage.
AmoExMem(op, addr, val) ==
    [ExMemDefault EXCEPT
        !.alu = addr, !.store_data = val, !.rd = 5,
        !.inst = RType(op, 5, 1, 2, 0),
        !.ctrl = [CtrlDefault EXCEPT
                     !.atomic_op = CASE op = "LR" -> "Lr" [] op = "SC" -> "Sc"
                                     [] OTHER -> "None",
                     !.mem_read = op # "SD", !.mem_write = op # "LR",
                     !.reg_write = op # "SD", !.b_src = "Zero"]]

AmoStep ==
    /\ Running
    /\ \E op \in {"LR", "SC", "SD"}, addr \in DOMAIN ram, val \in {5, 7} :
          /\ SetCpu(mem_stage([Cpu EXCEPT !.ex_mem = AmoExMem(op, addr, val)],
                              FALSE))
          /\ last' = [NoOp EXCEPT
                        !.op = op, !.addr = addr, !.pre = PreOf(Cpu),
                        !.resv = CASE op = "LR" -> {addr}
                                   [] op = "SD" -> last.resv \ {addr}
                                   [] OTHER -> {}]
    /\ steps' = steps + 1
    /\ UNCHANGED bus

NextAmo ==
    \/ LoaderSetup
    \/ DirectSetup
    \/ AmoStep
    \/ TrapCall

SpecAmo == InitNew /\ [][NextAmo]_vars

(***************************************************************************)
(* Programs with conditional branches, run directly.  The predictor is     *)
(* trained from outside before the run: update_branch is a public method   *)
(* of the public field cpu.branch_predictor.                               *)
(***************************************************************************)
BranchAlphabet ==
    {BType("BEQ", 0, 0, 8), BType("BNE", 0, 0, 8), BType("BEQ", 1, 0, 8),
     BType("BEQ", 0, 0, 0), BType("BEQ", 0, 0, 4), IType("ADDI", 1, 0, 3)}

BranchImages ==
    {[code |-> p, data |-> DataWord] : p \in [1..ProgLen -> BranchAlphabet]}

RunBranchBinary ==
    /\ last.op = "new"
    /\ \E binary \in BranchImages : SetCpu(SetupDirectMode(Cpu, binary))
    /\ last' = [NoOp EXCEPT !.op = "direct_mode", !.pre = PreOf(Cpu)]
    /\ UNCHANGED <<bus, steps>>

\* The branches the predictor is trained with: pc, outcome, target.
BranchUpdates ==
    {<<0, TRUE, {8}>>, <<0, TRUE, {0}>>, <<4, TRUE, {8}>>, <<4, FALSE, {}>>}

UpdateBranchCall ==
    /\ last.op = "direct_mode"
    /\ \E u \in BranchUpdates, d \in BOOLEAN :
          branch_predictor' =
              [update_branch(branch_predictor, u[1], u[2], u[3]) EXCEPT !.dir = d]
    /\ UNCHANGED <<privilege, pc, csrs, regs, fregs, if_id, id_ex, ex_mem,
                   mem_wb, l1_d_cache, load_reservation, wb_latch,
                   stall_cycles, stats, exit_code, ram, imem, pt_mem, mmu,
                   bus, ghost, halted, last, steps>>

NextBranch ==
    \/ RunBranchBinary
    \/ UpdateBranchCall
    \/ Tick

SpecBranch == InitNew /\ [][NextBranch]_vars

(***************************************************************************)
(* Programs that end with the exit call, run as main does: tick, then      *)
(* take_exit.  The registers are also set from outside before the run, as  *)
(* the unit tests do.                                                      *)
(***************************************************************************)
ExitAlphabet ==
    {EcallInst, IType("ADDI", REG_A7, 0, SYS_EXIT), IType("ADDI", REG_A0, 0, 7),
     IType("ADDI", REG_A0, 0, SYS_EXIT), IType("ADDI", 1, 0, 3)}

ExitImages ==
    {[code |-> p, data |-> DataWord] : p \in [1..ProgLen -> ExitAlphabet]}

RunExitBinary ==
    /\ last.op = "new"
    /\ \E binary \in ExitImages : SetCpu(SetupDirectMode(Cpu, binary))
    /\ last' = [NoOp EXCEPT !.op = "direct_mode", !.pre = PreOf(Cpu)]
    /\ UNCHANGED <<bus, steps>>

ExitRegWrites == {<<REG_A7, SYS_EXIT>>, <<REG_A0, 7>>, <<REG_A1, 5>>}

ExitRegWriteCall ==
    /\ last.op = "direct_mode"
    /\ \E w \in ExitRegWrites :
          SetCpu([Cpu EXCEPT !.regs = RegWrite(@, w[1], w[2]),
                             !.ghost.arch = RegWrite(@, w[1], w[2])])
    /\ UNCHANGED <<bus, last, steps>>

TakeExitCall ==
    /\ last.op \in {"tick", "take_exit"}
    /\ LET r == take_exit(Cpu)
       IN  /\ SetCpu(r.cpu)
           /\ last' = [NoOp EXCEPT !.op = "take_exit", !.ret = r.ret,
                                    !.pre = PreOf(Cpu)]
    /\ UNCHANGED <<bus, steps>>

NextExit ==
    \/ RunExitBinary
    \/ ExitRegWriteCall
    \/ Tick
    \/ TakeExitCall

SpecExit == InitNew /\ [][NextExit]_vars

(***************************************************************************)
(* bindings/src/cpu.rs PyCpu::run(limit): the loop returns None once limit *)
(* cycles are counted, polls for signals when the cycle count is a         *)
(* multiple of 10000, ticks, and returns the exit code take_exit gives.    *)
(* The machine is a loaded kernel or a binary run directly, with the       *)
(* firmware's interrupt set-up.  stats.traps_taken is followed up to       *)
(* MaxRunTraps, and `steps` tells one iteration of the loop from the next. *)
(***************************************************************************)
MaxLimit == 4

MaxRunTraps == 3

SignalCadence == 10000

\* The firmware's set-ups of the timer interrupt: with the supervisor's
\* interrupts enabled in mstatus or not.
RunSetups ==
    {<<<<MIE, MIE_MTIE>>>>,
     <<<<MSTATUS, MSTATUS_SIE \cup MSTATUS_MPIE \cup {11}>>, <<MIE, MIE_MTIE>>>>}

FirmwareSetup ==
    /\ last.op \in {"setup_kernel_load", "direct_mode"}
    /\ \E writes \in RunSetups : SetCpu(CsrWriteAll(Cpu, writes))
    /\ bus' = [bus EXCEPT !.clint = "armed"]
    /\ last' = [NoOp EXCEPT !.op = "irq_setup", !.pre = PreOf(Cpu)]
    /\ UNCHANGED steps

RunCall ==
    /\ last.op \in {"setup_kernel_load", "direct_mode", "irq_setup"}
    /\ ~halted
    /\ \E limit \in 1..MaxLimit :
          last' = [NoOp EXCEPT !.op = "run", !.pre = PreOf(Cpu),
                               !.run = [state |-> "loop",
                                        start_cycles |-> stats.cycles,
                                        limit |-> limit, ret |-> {}]]
    /\ SetCpu(Cpu)
    /\ UNCHANGED <<bus, steps>>

CapTraps(c) ==
    [c EXCEPT !.stats.traps_taken = IF @ > MaxRunTraps THEN MaxRunTraps ELSE @]

\* One iteration of the loop.
RunIteration ==
    /\ last.op = "run" /\ last.run.state = "loop"
    /\ steps' = 1 - steps
    /\ IF stats.cycles - last.run.start_cycles >= last.run.limit
       THEN /\ last' = [last EXCEPT !.run.state = "returned", !.run.ret = {}]
            /\ SetCpu(Cpu)
            /\ bus' = bus
       ELSE \E signal \in (IF stats.cycles % SignalCadence = 0 THEN BOOLEAN
                            ELSE {FALSE}),
               timer_fires \in MayFire(bus.clint),
               ext_fires \in MayFire(bus.plic), miss \in MayMiss(ex_mem) :
               IF signal
               THEN /\ last' = [last EXCEPT !.run.state = "raised"]
                    /\ SetCpu(Cpu)
                    /\ bus' = bus
               ELSE \E b \in {BusTick(bus, timer_fires, ext_fires)} :
                    \E t \in {CapTraps(tick(Cpu, TimerIrq(b), ExternalIrq(b),
                                           miss))} :
                    \E r \in {take_exit(t)} :
                        /\ bus' = b
                        /\ IF t.halted
                           THEN /\ SetCpu(t)
                                /\ last' = [last EXCEPT !.run.state = "raised"]
                           ELSE /\ SetCpu(r.cpu)
                                /\ last' = [last EXCEPT
                                              !.run.state = IF r.ret # {}
                                                            THEN "returned"
                                                            ELSE "loop",
                                              !.run.ret = r.ret]

NextRun ==
    \/ LoaderSetup
    \/ RunExitBinary
    \/ ExitRegWriteCall
    \/ FirmwareSetup
    \/ RunCall
    \/ RunIteration

\* The steps of RunIteration, told by what they do to `steps` alone: no
\* other action of NextRun changes it.
RunStep ==
    /\ last.op = "run" /\ last.run.state = "loop"
    /\ steps' = 1 - steps

\* The loop runs on: no iteration waits on anything.
SpecRun == InitNew /\ [][NextRun]_vars /\ WF_steps(RunStep)

(***************************************************************************)
(* The machine with the firmware's timer set-up: a kernel or a binary is   *)
(* loaded, the timer interrupt is enabled, and the Cpu is ticked.          *)
(***************************************************************************)
NextIrq ==
    \/ BootKernel
    \/ RunBinary
    \/ FirmwareSetup
    \/ Tick

SpecIrq == InitNew /\ [][NextIrq]_vars

(***************************************************************************)
(* The fetch stage of the superscalar pipeline, called on a loaded binary  *)
(* for every pipeline width up to MaxWidth; last.width is the width.       *)
(***************************************************************************)
MaxWidth == 3

MaxFetchSteps == 3

FetchAlphabet ==
    {JType("JAL", 1, 8), JType("JAL", 0, 4), IType("JALR", 0, 1, 0),
     IType("JALR", 1, 3, 4), BType("BEQ", 0, 0, 8), IType("ADDI", 1, 0, 3)}

FetchImages ==
    {[code |-> p, data |-> DataWord] : p \in [1..ProgLen -> FetchAlphabet]}

RunFetchBinary ==
    /\ last.op = "new"
    /\ \E binary \in FetchImages : SetCpu(SetupDirectMode(Cpu, binary))
    /\ last' = [NoOp EXCEPT !.op = "direct_mode", !.pre = PreOf(Cpu)]
    /\ UNCHANGED <<bus, steps>>

\* The calls the return address stack is trained with: pc, return address,
\* target.
Calls == {<<0, 4, 8>>, <<4, 8, 5>>}

OnCallCall ==
    /\ last.op = "direct_mode"
    /\ \E k \in Calls :
          branch_predictor' = on_call(branch_predictor, k[1], k[2], k[3])
    /\ UNCHANGED <<privilege, pc, csrs, regs, fregs, if_id, id_ex, ex_mem,
                   mem_wb, l1_d_cache, load_reservation, wb_latch,
                   stall_cycles, stats, exit_code, ram, imem, pt_mem, mmu,
                   bus, ghost, halted, last, steps>>

FetchCall ==
    /\ last.op \in {"direct_mode", "fetch_stage"}
    /\ steps < MaxFetchSteps
    /\ \E pipeline_width \in 1..MaxWidth :
          /\ SetCpu(fetch_stage_wide(Cpu, pipeline_width))
          /\ last' = [NoOp EXCEPT !.op = "fetch_stage", !.epc = pc,
                                   !.width = pipeline_width, !.pre = PreOf(Cpu)]
    /\ steps' = steps + 1
    /\ UNCHANGED bus

NextFetch ==
    \/ RunFetchBinary
    \/ UpdateBranchCall
    \/ OnCallCall
    \/ FetchCall

SpecFetch == InitNew /\ [][NextFetch]_vars

(***************************************************************************)
(* The L1 data cache: the simulator is built with a cache configuration,   *)
(* and the memory stage then reads and writes through the cache.           *)
(* last.hit is what the access returned.                                   *)
(***************************************************************************)
MaxCacheSteps == 4

\* Caches of one or two sets and one or two ways, with every policy and
\* prefetcher.
CacheConfigs ==
    {[CacheConfigOff EXCEPT !.enabled = TRUE, !.size_bytes = 64 * n * w,
                            !.ways = w, !.policy = pol, !.prefetcher = pre] :
        n \in {1, 2}, w \in {1, 2}, pol \in {"LRU", "FIFO", "PLRU", "Random"},
        pre \in {"None", "NextLine", "Stride"}}

CacheSetup ==
    /\ last.op = "new"
    /\ \E config \in CacheConfigs :
          SetCpu([Cpu EXCEPT !.l1_d_cache = CacheSimNew(config)])
    /\ last' = [NoOp EXCEPT !.op = "cache_new"]
    /\ UNCHANGED <<bus, steps>>

CacheAccess ==
    /\ last.op # "new" /\ steps < MaxCacheSteps
    /\ \E addr \in {0, 64, 128}, is_write \in BOOLEAN :
          LET r == cache_access(l1_d_cache, addr, is_write, 1)
          IN  /\ SetCpu([Cpu EXCEPT !.l1_d_cache = r.cache])
              /\ last' = [NoOp EXCEPT
                            !.op = "access", !.addr = addr, !.hit = r.hit,
                            !.access = IF is_write THEN "Write" ELSE "Read"]
    /\ steps' = steps + 1
    /\ UNCHANGED bus

NextCache ==
    \/ CacheSetup
    \/ CacheAccess

SpecCache == InitNew /\ [][NextCache]_vars

(***************************************************************************)
(* The PLIC alone: the bus feeds it the interrupt lines (update_irqs) and  *)
(* ticks it, the guest reads and writes its registers.  last.ret is        *)
(* {value} for a read and {irq} for a tick.                                *)
(***************************************************************************)
MaxPlicSteps == 7

\* The lines raised: of the ids 1, 2 and 33.
IrqMasks == {{}, {1}, {33}, {1, 2}, {2, 33}}

PlicClaimReg == PLIC_CONTEXT_BASE + 4096 + 4

\* Priorities of the ids 1, 2 and 33, the words 0 and 1 of the supervisor
\* context's enable bitmap, its threshold, and the completion.
PlicWrites ==
    {<<PLIC_PRIORITY_BASE + (4 * id), v>> : id \in {1, 2, 33}, v \in {1, 2}}
    \cup {<<PLIC_ENABLE_BASE + 128 + (4 * w), e>> : w \in 0..1, e \in {{1}, {2}}}
    \cup {<<PLIC_CONTEXT_BASE + 4096, 1>>, <<PlicClaimReg, 0>>}

PlicRunning == steps < MaxPlicSteps

UpdateIrqsCall ==
    /\ PlicRunning
    /\ \E mask \in IrqMasks :
          bus' = [bus EXCEPT !.plic_regs = update_irqs(@, mask)]
    /\ last' = [NoOp EXCEPT !.op = "update_irqs"]
    /\ SetCpu(Cpu)
    /\ steps' = steps + 1

PlicWriteCall ==
    /\ PlicRunning
    /\ \E w \in PlicWrites :
          /\ bus' = [bus EXCEPT
                       !.plic_regs = PlicWrite(@, w[1], w[2]),
                       !.enable_bitmap = EnableBitmapWrite(@, w[1], w[2])]
          /\ last' = [NoOp EXCEPT !.op = "plic_write", !.addr = w[1]]
    /\ SetCpu(Cpu)
    /\ steps' = steps + 1

PlicReadCall ==
    /\ PlicRunning
    /\ \E offset \in {PlicClaimReg} :
          LET r == PlicRead(bus.plic_regs, offset)
          IN  /\ bus' = [bus EXCEPT !.plic_regs = r.plic]
              /\ last' = [NoOp EXCEPT !.op = "plic_read", !.addr = offset,
                                       !.ret = {r.val}]
    /\ SetCpu(Cpu)
    /\ steps' = steps + 1

PlicTickCall ==
    /\ PlicRunning
    /\ LET r == PlicTick(bus.plic_regs)
       IN  /\ bus' = [bus EXCEPT !.plic_regs = r.plic]
           /\ last' = [NoOp EXCEPT !.op = "plic_tick", !.ret = {r.irq}]
    /\ SetCpu(Cpu)
    /\ steps' = steps + 1

NextPlic ==
    \/ UpdateIrqsCall
    \/ PlicWriteCall
    \/ PlicReadCall
    \/ PlicTickCall

SpecPlic == InitNew /\ [][NextPlic]_vars

(***************************************************************************)
(* The CLINT alone: the guest writes and reads its registers, the bus      *)
(* ticks it.  last.val is the value written or read, last.stored the value *)
(* of the 32-bit write to the same offset that came directly before a      *)
(* read (<<>> when none did).                                              *)
(***************************************************************************)
MaxClintSteps == 4

ClintOffsets ==
    {MSIP_OFFSET, MTIMECMP_OFFSET, MTIMECMP_OFFSET + 4, MTIME_OFFSET,
     MTIME_OFFSET + 4}

\* 1, 0x00070005 and 0xFFFFFFFF.
ClintVals32 == {<<1, 0, 0, 0>>, <<5, 7, 0, 0>>, <<65535, 65535, 0, 0>>}

\* 2 and 0x0000000300000009.
ClintVals64 == {<<2, 0, 0, 0>>, <<9, 0, 3, 0>>}

ClintRunning == steps < MaxClintSteps

ClintWrite32Call ==
    /\ ClintRunning
    /\ \E offset \in ClintOffsets, val \in ClintVals32 :
          /\ bus' = [bus EXCEPT !.clint_regs = ClintWrite32(@, offset, val)]
          /\ last' = [NoOp EXCEPT !.op = "clint_write32", !.addr = offset,
                                   !.val = val]
    /\ SetCpu(Cpu)
    /\ steps' = steps + 1

ClintWrite64Call ==
    /\ ClintRunning
    /\ \E offset \in {MTIMECMP_OFFSET, MTIME_OFFSET}, val \in ClintVals64 :
          /\ bus' = [bus EXCEPT !.clint_regs = ClintWrite64(@, offset, val)]
          /\ last' = [NoOp EXCEPT !.op = "clint_write64", !.addr = offset,
                                   !.val = val]
    /\ SetCpu(Cpu)
    /\ steps' = steps + 1

ClintRead32Call ==
    /\ ClintRunning
    /\ \E offset \in ClintOffsets :
          last' = [NoOp EXCEPT
                     !.op = "clint_read32", !.addr = offset,
                     !.val = ClintRead32(bus.clint_regs, offset),
                     !.stored = IF last.op = "clint_write32"
                                   /\ last.addr = offset
                                THEN last.val ELSE <<>>]
    /\ SetCpu(Cpu)
    /\ bus' = bus
    /\ steps' = steps + 1

ClintTickCall ==
    /\ ClintRunning
    /\ LET r == ClintTick(bus.clint_regs)
       IN  /\ bus' = [bus EXCEPT !.clint_regs = r.clint]
           /\ last' = [NoOp EXCEPT !.op = "clint_tick", !.ret = {r.irq}]
    /\ SetCpu(Cpu)
    /\ steps' = steps + 1

NextClint ==
    \/ ClintWrite32Call
    \/ ClintWrite64Call
    \/ ClintRead32Call
    \/ ClintTickCall

SpecClint == InitNew /\ [][NextClint]_vars

(***************************************************************************)
(* The UART and the stdin thread.  The thread sends a byte at any moment   *)
(* between two operations of the simulator thread, which reads and writes  *)
(* the registers for the guest and ticks the device.  Stdin holds at most  *)
(* MaxInput bytes.                                                         *)
(***************************************************************************)
MaxInput == 2

StdinBytes == {65, 66}

\* IER and LCR, and the registers the guest reads: RBR and LSR.
UartWrites == {<<1, 1>>, <<3, 128>>, <<3, 0>>}

UartReads == {0, 5}

StdinThread ==
    /\ Len(bus.uart_log.sent) < MaxInput
    /\ \E byte \in StdinBytes :
          bus' = [bus EXCEPT !.uart = StdinSend(@, byte),
                             !.uart_log.sent = Append(@, byte)]
    /\ UNCHANGED <<last, steps>>
    /\ SetCpu(Cpu)

UartReadCall ==
    /\ \E offset \in UartReads :
          LET r == UartRead8(bus.uart, offset)
              data == offset = 0 /\ ~Dlab(bus.uart) /\ bus.uart.rx_queue # <<>>
          IN  /\ bus' = [bus EXCEPT
                           !.uart = r.uart,
                           !.uart_log.got = IF data THEN Append(@, r.val)
                                            ELSE @]
              /\ last' = [NoOp EXCEPT !.op = "uart_read", !.addr = offset,
                                       !.ret = {r.val}, !.hit = data]
    /\ SetCpu(Cpu)
    /\ UNCHANGED steps

UartWriteCall ==
    /\ \E w \in UartWrites :
          /\ bus' = [bus EXCEPT !.uart = UartWrite8(@, w[1], w[2])]
          /\ last' = [NoOp EXCEPT !.op = "uart_write", !.addr = w[1]]
    /\ SetCpu(Cpu)
    /\ UNCHANGED steps

UartTickCall ==
    /\ LET r == UartTick(bus.uart)
       IN  /\ bus' = [bus EXCEPT !.uart = r.uart]
           /\ last' = [NoOp EXCEPT !.op = "uart_tick", !.ret = {r.irq}]
    /\ SetCpu(Cpu)
    /\ UNCHANGED steps

NextUart ==
    \/ StdinThread
    \/ UartReadCall
    \/ UartWriteCall
    \/ UartTickCall

SpecUart == InitNew /\ [][NextUart]_vars

(***************************************************************************)
(* The block device alone.  The guest lays a queue out in RAM with its     *)
(* stores, programs the device's registers, notifies the queue,            *)
(* acknowledges the interrupt; the bus ticks the device.  The layouts put  *)
(* the available ring at 0 (the reset value of its address register), the  *)
(* used ring, the descriptor table, a request header, a 4-byte data buffer *)
(* and the status byte at the addresses of QueueAt; each request is the    *)
(* chain of the descriptors 0, 1, 2 in the layout of virtio (addr, len,    *)
(* flags, next), and the                                                   *)
(* guest makes one or two more requests available each time, leaving the   *)
(* used ring as the device wrote it.  A panic ends the simulator.          *)
(***************************************************************************)
MaxVirtioSteps == 7

QueueAt == [used |-> 8, desc |-> 32, header |-> 80, data |-> 96, status |-> 100]

ToLe64(x) ==
    <<x[1] % 256, x[1] \div 256, x[2] % 256, x[2] \div 256,
      x[3] % 256, x[3] \div 256, x[4] % 256, x[4] \div 256>>

\* A descriptor: addr, len, flags, next.
Desc(addr, len, flags, next) ==
    ToLe64(addr) \o ToLe32(len) \o ToLe16(flags) \o ToLe16(next)

\* The flags of the three descriptors of a read request: NEXT, NEXT and
\* WRITE, WRITE; and flags that repeat the index of the next descriptor.
ChainFlags == <<1, 3, 2>>

NextAsFlags == <<1, 2, 0>>

QueueLayout(mem, d0_addr, d1_addr, d2_addr, flags, idx) ==
    LET image == <<0, 0>> \o ToLe16(idx) \o <<0, 0, 0, 0>>
                 \o [i \in 1..24 |-> mem[QueueAt.used + i - 1]]
                 \o Desc(d0_addr, 16, flags[1], 1)
                 \o Desc(d1_addr, 4, flags[2], 2)
                 \o Desc(d2_addr, 1, flags[3], 0)
                 \o [i \in 1..16 |-> 0]
                 \o <<170, 170, 170, 170>>
                 \o <<255>>
    IN  [a \in 0..(VRamSize - 1) |->
           IF a + 1 <= Len(image) THEN image[a + 1] ELSE 0]

\* One more request and two more requests with everything inside RAM, the
\* first with either flags; a header address of 2^64 - 8; a data buffer
\* whose last two bytes lie beyond RAM; a status byte beyond RAM.
Layouts(mem, idx) ==
    {QueueLayout(mem, U64Of(QueueAt.header), U64Of(QueueAt.data),
                 U64Of(QueueAt.status), ChainFlags, (idx + 1) % 65536),
     QueueLayout(mem, U64Of(QueueAt.header), U64Of(QueueAt.data),
                 U64Of(QueueAt.status), NextAsFlags, (idx + 1) % 65536),
     QueueLayout(mem, U64Of(QueueAt.header), U64Of(QueueAt.data),
                 U64Of(QueueAt.status), NextAsFlags, (idx + 2) % 65536),
     QueueLayout(mem, <<65528, 65535, 65535, 65535>>, U64Of(QueueAt.data),
                 U64Of(QueueAt.status), NextAsFlags, (idx + 1) % 65536),
     QueueLayout(mem, U64Of(QueueAt.header), U64Of(VRamSize - 2),
                 U64Of(QueueAt.status), NextAsFlags, (idx + 1) % 65536),
     QueueLayout(mem, U64Of(QueueAt.header), U64Of(QueueAt.data),
                 U64Of(VRamSize), NextAsFlags, (idx + 1) % 65536)}

\* QueueNum, QueueDescLow, QueueUsedLow, InterruptACK.
VirtioWrites ==
    {<<56, 2>>, <<128, QueueAt.desc>>, <<160, QueueAt.used>>, <<100, 1>>}

Builds == {"debug", "release"}

Garbage == {0, 255}

VirtioRunning == steps < MaxVirtioSteps /\ ~bus.dma.panic

LoadCall ==
    /\ VirtioRunning
    /\ bus.virtio.disk_image = <<>>
    /\ bus' = [bus EXCEPT !.virtio = load(@, DiskImage)]
    /\ last' = [NoOp EXCEPT !.op = "virtio_load"]
    /\ SetCpu(Cpu)
    /\ steps' = steps + 1

GuestLayout ==
    /\ VirtioRunning
    /\ \E layout \in Layouts(bus.vram, bus.virtio.last_avail_idx) :
          bus' = [bus EXCEPT !.vram = layout]
    /\ last' = [NoOp EXCEPT !.op = "virtio_layout"]
    /\ SetCpu(Cpu)
    /\ steps' = steps + 1

VirtioWriteCall ==
    /\ VirtioRunning
    /\ \E w \in VirtioWrites :
          /\ bus' = [bus EXCEPT !.virtio = VirtioWrite32(@, w[1], U64Of(w[2]))]
          /\ last' = [NoOp EXCEPT !.op = "virtio_write", !.addr = w[1]]
    /\ SetCpu(Cpu)
    /\ steps' = steps + 1

\* write_u32(0x50, 0)
VirtioNotifyCall ==
    /\ VirtioRunning
    /\ \E build \in Builds, garbage \in Garbage :
       \E st \in {process_queue([bus.virtio EXCEPT !.queue_notify = 0],
                                bus.vram, build, garbage)} :
          bus' = [bus EXCEPT
                    !.virtio = IF st.panic THEN @ ELSE st.v,
                    !.vram = IF st.panic THEN @ ELSE st.ram,
                    !.dma = [log |-> st.log, done |-> st.done,
                             panic |-> st.panic,
                             last_avail_idx |-> bus.virtio.last_avail_idx,
                             used_idx |-> Le16(<<bus.vram[QueueAt.used + 2],
                                                 bus.vram[QueueAt.used + 3]>>)]]
    /\ last' = [NoOp EXCEPT !.op = "virtio_write", !.addr = 80]
    /\ SetCpu(Cpu)
    /\ steps' = steps + 1

VirtioTickCall ==
    /\ VirtioRunning
    /\ last' = [NoOp EXCEPT !.op = "virtio_tick",
                            !.ret = {VirtioTick(bus.virtio)}]
    /\ SetCpu(Cpu)
    /\ UNCHANGED bus
    /\ steps' = steps + 1

NextVirtio ==
    \/ LoadCall
    \/ GuestLayout
    \/ VirtioWriteCall
    \/ VirtioNotifyCall
    \/ VirtioTickCall

SpecVirtio == InitNew /\ [][NextVirtio]_vars

(***************************************************************************)
(* core/stages/execute.rs alu: the Div, Divu, Rem and Remu arms, on u64    *)
(* values as four 16-bit quarters.  The casts are what they do in Rust:    *)
(* `as u32` keeps the low 32 bits, `u32 as i64` extends with zeros,        *)
(* `i32 as i64` extends with the sign.                                     *)
(***************************************************************************)
Zero64 == <<0, 0, 0, 0>>

Not64(x) == <<65535 - x[1], 65535 - x[2], 65535 - x[3], 65535 - x[4]>>

\* wrapping_neg and wrapping_sub
Neg64(x) == Add64(Not64(x), U64Of(1)).val

Sub64(x, y) == Add64(x, Neg64(y)).val

\* (x as i64) < 0, and the magnitude of x as i64
IsNeg64(x) == x[4] >= 32768

Abs64(x) == IF IsNeg64(x) THEN Neg64(x) ELSE x

\* x as i32 as i64 as u64
Sext32(x) ==
    IF x[2] >= 32768 THEN <<x[1], x[2], 65535, 65535>> ELSE <<x[1], x[2], 0, 0>>

\* Bit i of x, and (x << 1) | bit.
BitOf(x, i) == (x[(i \div 16) + 1] \div (2 ^ (i % 16))) % 2

Shl1(x, bit) ==
    LET s1 == (2 * x[1]) + bit
        s2 == (2 * x[2]) + (s1 \div 65536)
        s3 == (2 * x[3]) + (s2 \div 65536)
        s4 == (2 * x[4]) + (s3 \div 65536)
    IN  <<s1 % 65536, s2 % 65536, s3 % 65536, s4 % 65536>>

\* a / b and a % b on u64, b not 0, bit by bit from the top.
DivStep(d, a, b) ==
    LET r == Shl1(d.r, BitOf(a, d.i))
    IN  IF GeU64(r, b)
        THEN [q |-> Shl1(d.q, 1), r |-> Sub64(r, b), i |-> d.i - 1]
        ELSE [q |-> Shl1(d.q, 0), r |-> r, i |-> d.i - 1]

RECURSIVE DivLoop(_, _, _)
DivLoop(d, a, b) ==
    IF d.i < 0 THEN d
    ELSE CHOOSE end \in {DivLoop(next, a, b) : next \in {DivStep(d, a, b)}} :
            TRUE

UDivRem(a, b) == DivLoop([q |-> Zero64, r |-> Zero64, i |-> 63], a, b)

\* (a as i64).wrapping_div(b as i64) and wrapping_rem: the quotient rounds
\* towards zero and the remainder has the sign of the dividend.
WrappingDiv(a, b) ==
    LET q == UDivRem(Abs64(a), Abs64(b)).q
    IN  IF IsNeg64(a) # IsNeg64(b) THEN Neg64(q) ELSE q

WrappingRem(a, b) ==
    LET r == UDivRem(Abs64(a), Abs64(b)).r
    IN  IF IsNeg64(a) THEN Neg64(r) ELSE r

\* alu(op, a, b, c, is32) for the four operations.  The i32 forms are the
\* i64 ones on the sign-extended low halves, wrapped to 32 bits.
alu_div(op, a, b, is32) ==
    CASE op = "Div" ->
           IF is32
           THEN IF Low32(b) = Zero64 THEN U64Max
                ELSE Sext32(WrappingDiv(Sext32(a), Sext32(b)))
           ELSE IF b = Zero64 THEN U64Max ELSE WrappingDiv(a, b)
      [] op = "Divu" ->
           IF is32
           THEN IF Low32(b) = Zero64 THEN U64Max
                ELSE UDivRem(Low32(a), Low32(b)).q
           ELSE IF b = Zero64 THEN U64Max ELSE UDivRem(a, b).q
      [] op = "Rem" ->
           IF is32
           THEN IF Low32(b) = Zero64 THEN a
                ELSE Sext32(WrappingRem(Sext32(a), Sext32(b)))
           ELSE IF b = Zero64 THEN a ELSE WrappingRem(a, b)
      [] op = "Remu" ->
           IF is32
           THEN IF Low32(b) = Zero64 THEN a
                ELSE UDivRem(Low32(a), Low32(b)).r
           ELSE IF b = Zero64 THEN a ELSE UDivRem(a, b).r

(***************************************************************************)
(* core/stages/execute.rs alu: the Mulh, Mulhsu and Mulhu arms.  The       *)
(* operands a and b are u64, so `a as i128` and `b as u128 as i128` extend *)
(* with zeros.  A 128-bit value is [lo, hi], two u64.  The multiplication  *)
(* of two i128 overflows when the product of the zero-extended operands    *)
(* is 2^127 or more: the debug build panics, the release build wraps.      *)
(***************************************************************************)
\* Column k of the schoolbook product of two u64 taken byte by byte: the
\* sum of the products of byte i of x and byte k - i of y, from byte i up.
RECURSIVE MulColumn(_, _, _, _)
MulColumn(x, y, k, i) ==
    IF i > 7 \/ i > k THEN 0
    ELSE (IF k - i <= 7 THEN ByteOf(x, i) * ByteOf(y, k - i) ELSE 0)
         + MulColumn(x, y, k, i + 1)

\* The sixteen bytes of x * y lowest first, from column k on with a carry.
RECURSIVE MulBytes(_, _, _, _)
MulBytes(x, y, k, carry) ==
    IF k > 15 THEN <<>>
    ELSE LET sum == MulColumn(x, y, k, 0) + carry
         IN  <<sum % 256>> \o MulBytes(x, y, k + 1, sum \div 256)

\* (x as u128) * (y as u128)
WideMul(x, y) ==
    LET bs == MulBytes(x, y, 0, 0)
    IN  [lo |-> <<Le16(SubSeq(bs, 1, 2)), Le16(SubSeq(bs, 3, 4)),
                  Le16(SubSeq(bs, 5, 6)), Le16(SubSeq(bs, 7, 8))>>,
         hi |-> <<Le16(SubSeq(bs, 9, 10)), Le16(SubSeq(bs, 11, 12)),
                  Le16(SubSeq(bs, 13, 14)), Le16(SubSeq(bs, 15, 16))>>]

\* wrapping_neg on 128 bits
Neg128(p) ==
    LET lo == Add64(Not64(p.lo), U64Of(1))
    IN  [lo |-> lo.val,
         hi |-> Add64(Not64(p.hi), IF lo.carry THEN U64Of(1) ELSE Zero64).val]

\* The product of two i64 held in i64 and known to fit (the 32-bit arms):
\* the low 64 bits of the signed 128-bit product.
MulI64(x, y) ==
    LET p == WideMul(Abs64(x), Abs64(y))
    IN  IF IsNeg64(x) # IsNeg64(y) THEN Neg128(p).lo ELSE p.lo

\* (x as i64) >> 32 as u64
Sar32(x) ==
    IF IsNeg64(x) THEN <<x[3], x[4], 65535, 65535>> ELSE <<x[3], x[4], 0, 0>>

\* alu(op, a, b, c, is32) for the three operations: the result, and whether
\* the call panicked.
alu_mulh(op, a, b, is32, build) ==
    CASE op = "Mulh" ->
           IF is32
           THEN [val |-> Sar32(MulI64(Sext32(a), Sext32(b))), panic |-> FALSE]
           ELSE LET p == WideMul(a, b)
                IN  IF p.hi[4] >= 32768 /\ build = "debug"
                    THEN [val |-> Zero64, panic |-> TRUE]
                    ELSE [val |-> p.hi, panic |-> FALSE]
      [] op = "Mulhsu" ->
           IF is32
           THEN [val |-> Sar32(MulI64(Sext32(a), Low32(b))), panic |-> FALSE]
           ELSE LET p == WideMul(a, b)
                IN  IF p.hi[4] >= 32768 /\ build = "debug"
                    THEN [val |-> Zero64, panic |-> TRUE]
                    ELSE [val |-> p.hi, panic |-> FALSE]
      [] op = "Mulhu" ->
           IF is32
           THEN [val |-> High32(WideMul(Low32(a), Low32(b)).lo),
                 panic |-> FALSE]
           ELSE [val |-> WideMul(a, b).hi, panic |-> FALSE]

(***************************************************************************)
(* The ALU alone: one call of alu, with the operation, the operands and    *)
(* the form drawn from DivOps, Operands and BOOLEAN; alu keeps no state,   *)
(* so one call from the initial state reaches every result.  last.stored   *)
(* is <<op, a, b, is32>>, last.val the result.                             *)
(***************************************************************************)
DivOps == {"Div", "Divu", "Rem", "Remu"}

\* 0, 1, 7, -1, i64::MIN, i32::MIN sign-extended, 0x80000000, 0xFFFFFFFF,
\* 0x1_00000005 and 0x5_00000000.
Operands ==
    {Zero64, U64Of(1), U64Of(7), U64Max, <<0, 0, 0, 32768>>,
     <<0, 32768, 65535, 65535>>, <<0, 32768, 0, 0>>, <<65535, 65535, 0, 0>>,
     <<5, 0, 1, 0>>, <<0, 0, 5, 0>>}

AluCall ==
    /\ last.op = "new"
    /\ \E op \in DivOps, a \in Operands, b \in Operands, is32 \in BOOLEAN :
       \E out \in {alu_div(op, a, b, is32)} :
          last' = [NoOp EXCEPT !.op = "alu", !.stored = <<op, a, b, is32>>,
                               !.val = out]
    /\ SetCpu(Cpu)
    /\ UNCHANGED <<bus, steps>>

MulOps == {"Mulh", "Mulhsu", "Mulhu"}

\* One call of alu with a high-half multiplication; last.op is "alu_mul".
MulCall ==
    /\ last.op = "new"
    /\ \E op \in MulOps, a \in Operands, b \in Operands, is32 \in BOOLEAN,
          build \in Builds :
       \E out \in {alu_mulh(op, a, b, is32, build)} :
          /\ last' = [NoOp EXCEPT !.op = "alu_mul",
                                  !.stored = <<op, a, b, is32>>,
                                  !.val = out.val]
          /\ SetCpu(IF out.panic THEN Panic(Cpu) ELSE Cpu)
    /\ UNCHANGED <<bus, steps>>

NextAlu == AluCall \/ MulCall

SpecAlu == InitNew /\ [][NextAlu]_vars

(***************************************************************************)
(* core/bp/gshare.rs: the GShare predictor alone, built as Cpu::new builds *)
(* it for the "GShare" configuration and trained by update_branch.  The    *)
(* predictor is held in branch_predictor as [ghr, pht, btb, ras]; last.op  *)
(* is "gshare_update" and last.stored <<idx, taken, counter before>>.      *)
(***************************************************************************)
TABLE_BITS == 12

TABLE_SIZE == 2 ^ TABLE_BITS

RECURSIVE BitXor(_, _)
BitXor(a, b) ==
    IF a = 0 THEN b
    ELSE IF b = 0 THEN a
    ELSE (IF a % 2 # b % 2 THEN 1 ELSE 0) + 2 * BitXor(a \div 2, b \div 2)

GSharePredictorNew ==
    [ghr |-> 0, pht |-> [i \in 0..(TABLE_SIZE - 1) |-> 1], btb |-> BtbNew,
     ras |-> <<>>]

\* GSharePredictor::index
gshare_index(bp, pc_) == BitXor((pc_ \div 4) % TABLE_SIZE, bp.ghr % TABLE_SIZE)

\* GSharePredictor::predict_branch
gshare_predict_branch(bp, pc_) ==
    IF bp.pht[gshare_index(bp, pc_)] >= 2
    THEN [taken |-> TRUE, target |-> btb_lookup(bp.btb, pc_)]
    ELSE [taken |-> FALSE, target |-> {}]

\* GSharePredictor::update_branch: the counter is a u8.
gshare_update_branch(bp, pc_, taken, target) ==
    LET idx == gshare_index(bp, pc_)
        counter == bp.pht[idx]
        pht == IF taken /\ counter < 3 THEN [bp.pht EXCEPT ![idx] = @ + 1]
               ELSE IF counter > 0 THEN [bp.pht EXCEPT ![idx] = @ - 1]
               ELSE bp.pht
        ghr == ((2 * bp.ghr) + (IF taken THEN 1 ELSE 0)) % TABLE_SIZE
    IN  [bp EXCEPT !.pht = pht, !.ghr = ghr,
                   !.btb = IF target # {}
                           THEN btb_update(@, pc_, CHOOSE t \in target : TRUE)
                           ELSE @]

MaxGshareSteps == 4

\* The branches the predictor is trained with: pc, outcome, target, the
\* target given for a taken branch as the execute stage gives it.  With the
\* history shifting, the pcs 0, 4 and 12 reach the same counter again.
GshareUpdates ==
    {<<pc_, taken, IF taken THEN {8} ELSE {}>> :
        pc_ \in {0, 4, 12}, taken \in BOOLEAN}

GShareNewCall ==
    /\ last.op = "new"
    /\ SetCpu([Cpu EXCEPT !.branch_predictor = GSharePredictorNew])
    /\ last' = [NoOp EXCEPT !.op = "gshare_new"]
    /\ UNCHANGED <<bus, steps>>

GShareUpdateCall ==
    /\ last.op \in {"gshare_new", "gshare_update"} /\ steps < MaxGshareSteps
    /\ \E u \in GshareUpdates :
          /\ SetCpu([Cpu EXCEPT !.branch_predictor =
                        gshare_update_branch(@, u[1], u[2], u[3])])
          /\ last' = [NoOp EXCEPT
                         !.op = "gshare_update",
                         !.stored = <<gshare_index(branch_predictor, u[1]),
                                      u[2],
                                      branch_predictor.pht[
                                          gshare_index(branch_predictor, u[1])]>>,
                         !.hit = gshare_predict_branch(branch_predictor,
                                                       u[1]).taken]
    /\ steps' = steps + 1
    /\ UNCHANGED bus

NextGshare == GShareNewCall \/ GShareUpdateCall

SpecGshare == InitNew /\ [][NextGshare]_vars

(***************************************************************************)
(* core/cpu.rs Cpu::simulate_memory_access, with the instruction cache,    *)
(* the L2 and the L3 built disabled: their branches return (false, 0) and  *)
(* change nothing.  The result is the simulator after the access, whether  *)
(* an enabled level hit, the latency the controller answered and the       *)
(* penalty returned.                                                       *)
(***************************************************************************)
simulate_memory_access(c, sys, addr, access) ==
    LET m == access_latency(sys.mem_controller, addr)
        is_inst == access = "Fetch"
        l1 == IF is_inst THEN [cache |-> c.l1_d_cache, hit |-> FALSE, penalty |-> 0]
              ELSE cache_access(c.l1_d_cache, addr, access = "Write", m.latency)
        counted == ~is_inst /\ c.l1_d_cache.enabled
        hit == counted /\ l1.hit
        c1 == [c EXCEPT !.l1_d_cache = l1.cache,
                        !.stats.dcache_hits = IF hit THEN @ + 1 ELSE @,
                        !.stats.dcache_misses =
                            IF counted /\ ~hit THEN @ + 1 ELSE @]
    IN  [cpu |-> c1,
         sys |-> [sys EXCEPT !.mem_controller = m.ctl],
         hit |-> hit,
         ram_latency |-> m.latency,
         penalty |-> IF hit THEN l1.penalty
                     ELSE l1.penalty + calculate_transit_time(8) + m.latency
                          + calculate_transit_time(64)]

MaxDramSteps == 4

\* The data caches the simulator is built with: none, one line, or one set
\* of two ways.
DramCacheConfigs ==
    {CacheConfigOff,
     [CacheConfigOff EXCEPT !.enabled = TRUE],
     [CacheConfigOff EXCEPT !.enabled = TRUE, !.size_bytes = 128, !.ways = 2]}

\* The controllers System::new builds: "DRAM" with t_cas, t_ras and t_pre,
\* or the simple one.
Controllers == {DramControllerNew(1, 2, 4), SimpleControllerNew(3)}

\* Cpu::new and System::new from a configuration.
DramSetup ==
    /\ last.op = "new"
    /\ \E config \in DramCacheConfigs, ctl \in Controllers :
          /\ SetCpu([Cpu EXCEPT !.l1_d_cache = CacheSimNew(config)])
          /\ bus' = [bus EXCEPT !.mem_controller = ctl]
    /\ last' = [NoOp EXCEPT !.op = "dram_new"]
    /\ UNCHANGED steps

\* One call of simulate_memory_access.  last.hit is whether an enabled
\* level hit, last.width the latency the controller answered, last.ret the
\* penalty, and last.resv the row of the last access that reached memory.
MemAccessCall ==
    /\ last.op \in {"dram_new", "mem_access"} /\ steps < MaxDramSteps
    /\ \E addr \in {0, 64, 2048, 4096}, access \in AccessTypes :
          LET r == simulate_memory_access(Cpu, bus, addr, access)
          IN  /\ SetCpu(r.cpu)
              /\ bus' = r.sys
              /\ last' = [NoOp EXCEPT
                            !.op = "mem_access", !.addr = addr,
                            !.access = access, !.hit = r.hit,
                            !.width = r.ram_latency, !.ret = {r.penalty},
                            !.resv = IF r.hit THEN last.resv
                                     ELSE {RowOf(addr)}]
    /\ steps' = steps + 1

NextDram == DramSetup \/ MemAccessCall

SpecDram == InitNew /\ [][NextDram]_vars

(***************************************************************************)
(* The machine leaving the boot trampoline: a kernel is loaded behind the  *)
(* MRET at address 0, machine-mode software may write mstatus once more    *)
(* through csr_write, and the Cpu is ticked, which executes the MRET and   *)
(* then the kernel.                                                        *)
(***************************************************************************)
\* The values written: MPP = 0, 1, 2 and 3, with MPIE.
MstatusVals ==
    {MSTATUS_MPIE, MSTATUS_MPIE \cup {11}, MSTATUS_MPIE \cup {12},
     MSTATUS_MPIE \cup {11, 12}}

MstatusSetup ==
    /\ last.op = "setup_kernel_load"
    /\ \E val \in MstatusVals : SetCpu(csr_write(Cpu, MSTATUS, val))
    /\ last' = [NoOp EXCEPT !.op = "mstatus_setup", !.pre = PreOf(Cpu)]
    /\ UNCHANGED <<bus, steps>>

NextPriv ==
    \/ BootSys
    \/ MstatusSetup
    \/ Tick

SpecPriv == InitNew /\ [][NextPriv]_vars

(***************************************************************************)
(* Claims about the register file and the pipeline, checked under Spec.    *)
(***************************************************************************)
\* C1: after any register-file writes and ticks, also of instructions whose
\* destination is x0, integer register 0 reads 0: through read(), and as
\* the stored word that dump() prints.
C1_ZeroRegister == RegRead(regs, 0) = 0 /\ regs[0] = 0

\* The last tick wrote back an instruction with destination x0 and a result
\* other than 0.
C1_Witness ==
    /\ last.op = "tick"
    /\ ghost.ran
    /\ wb_latch.seq # 0
    /\ wb_latch.ctrl.reg_write
    /\ wb_latch.rd = 0
    /\ wb_latch.alu # 0

\* C2: every operand the execute stage uses for a register other than x0 is
\* the value computed by the youngest older instruction that writes that
\* register in the same register file (the architectural value in program
\* order), wherever that instruction is in the pipeline.
C2_Forwarding ==
    \A r \in ghost.exec.reads : (r.fp \/ r.idx # 0) => r.used = r.arch

\* The executed instruction read a register that the two instructions
\* before it, both still in flight, wrote with different values, and used
\* the younger one's.
C2_Witness ==
    \E r \in ghost.exec.reads :
        /\ ~r.fp
        /\ r.idx # 0
        /\ mem_wb.seq = ghost.exec.seq - 1
        /\ wb_latch.seq = ghost.exec.seq - 2
        /\ wb_latch.seq > 0
        /\ mem_wb.ctrl.reg_write /\ ~mem_wb.ctrl.mem_read /\ mem_wb.rd = r.idx
        /\ wb_latch.ctrl.reg_write /\ ~wb_latch.ctrl.mem_read /\ wb_latch.rd = r.idx
        /\ mem_wb.alu # wb_latch.alu
        /\ r.used = mem_wb.alu

\* The instruction in IF/ID reads the destination of the load in ID/EX, in
\* the register file the load writes.
ReadsReg(inst, fp, idx) == \E r \in SrcRegs(inst) : r.fp = fp /\ r.idx = idx

LoadUse(id, f) ==
    /\ id.seq # 0
    /\ id.trap = NoTrap
    /\ id.ctrl.mem_read
    /\ f.seq # 0
    /\ ReadsReg(f.inst, id.ctrl.fp_reg_write, id.rd)

\* The step is a tick that ran the pipeline stages.
PipelineTick == last'.op = "tick" /\ ghost'.ran

\* The tick stalled: a bubble in ID/EX, one data stall, IF/ID and pc kept.
StallStep ==
    /\ id_ex' = IdExBubble
    /\ stats'.stalls_data = stats.stalls_data + 1
    /\ if_id' = if_id
    /\ pc' = pc

\* The tick after a stall decodes the instruction that was held, and counts
\* no further data stall.
ResumeStep ==
    /\ ~ghost'.hazard
    /\ id_ex'.seq = if_id.seq
    /\ stats'.stalls_data = stats.stalls_data

\* An instruction that was held by a stall executes when the load is in the
\* write-back latch, and uses the loaded value for the load's destination.
HeldUsesLoaded ==
    (ghost.exec.seq # 0 /\ ghost.exec.seq \in ghost.held) =>
        /\ wb_latch.ctrl.mem_read
        /\ \A r \in ghost.exec.reads :
              (r.fp = wb_latch.ctrl.fp_reg_write /\ r.idx = wb_latch.rd
               /\ (r.fp \/ r.idx # 0)) => r.used = wb_latch.load_data

\* C3, as stated: whenever ID/EX holds a load and IF/ID reads the load's
\* destination in the matching register file, the tick stalls exactly one
\* cycle and the dependent instruction later executes with the loaded value.
C3_LoadUseStall ==
    [][/\ (PipelineTick /\ LoadUse(id_ex, if_id)) => StallStep
       /\ (PipelineTick /\ ghost.hazard) => ResumeStep
       /\ HeldUsesLoaded']_vars

\* C3, for loads that have a destination (an FP load, or an integer load
\* with rd other than x0): the stall, its length and the loaded value.
C3_LoadUseStallNonZero ==
    [][/\ (PipelineTick /\ LoadUse(id_ex, if_id)
             /\ (id_ex.ctrl.fp_reg_write \/ id_ex.rd # 0)) => StallStep
       /\ (PipelineTick /\ ghost.hazard) => ResumeStep
       /\ HeldUsesLoaded']_vars

\* After exactly one data stall the held instruction executed with the
\* value an integer load put in the write-back latch.
C3_Witness ==
    /\ stats.stalls_data = 1
    /\ ghost.exec.seq \in ghost.held
    /\ wb_latch.ctrl.mem_read
    /\ wb_latch.ctrl.reg_write
    /\ wb_latch.load_data = DataWord
    /\ \E r \in ghost.exec.reads :
          ~r.fp /\ r.idx # 0 /\ r.idx = wb_latch.rd /\ r.used = DataWord

\* How far the instruction fetched as number s has come: 1 to 4 for the
\* latches IF/ID, ID/EX, EX/MEM, MEM/WB, 5 once retired, 0 when it is not
\* in the pipeline.
Position(s, f, id, ex, wb, retired) ==
    IF \E k \in DOMAIN retired : retired[k] = s THEN 5
    ELSE IF wb.seq = s THEN 4
    ELSE IF ex.seq = s THEN 3
    ELSE IF id.seq = s THEN 2
    ELSE IF f.seq = s THEN 1
    ELSE 0

\* C7: in every tick mip is updated from the bus first, the interrupt check
\* runs on the updated mip, and the pipeline advances only when no
\* interrupt is taken; every instruction advances by at most one latch per
\* tick, and instructions retire in program order.
C7_TickOrder ==
    [][last'.op = "tick" =>
         /\ (MIP_MTIP \subseteq csrs'.mip) <=> TimerIrq(bus')
         /\ (MIP_MEIP \subseteq csrs'.mip) <=> ExternalIrq(bus')
         /\ last'.irq = TakenIrq([Cpu EXCEPT !.csrs.mip = csrs'.mip])
         /\ last'.irq # {} =>
               /\ ~ghost'.ran
               /\ <<ex_mem, mem_wb, wb_latch, regs, fregs, ram>>'
                     = <<ex_mem, mem_wb, wb_latch, regs, fregs, ram>>
               /\ stats'.traps_taken = stats.traps_taken + 1
         /\ \A s \in 1..(ghost'.nseq - 1) :
               Position(s, if_id', id_ex', ex_mem', mem_wb', ghost'.retired)
                 <= Position(s, if_id, id_ex, ex_mem, mem_wb, ghost.retired) + 1
         /\ \A i, j \in DOMAIN ghost'.retired :
               i < j => ghost'.retired[i] <= ghost'.retired[j]]_vars

\* After an interrupt was taken, a tick ran the five stages with a fetched
\* instruction in every latch and retired one.
C7_Witness ==
    /\ last.op = "tick"
    /\ ghost.ran
    /\ stats.traps_taken > 0
    /\ if_id.seq > id_ex.seq
    /\ id_ex.seq > ex_mem.seq
    /\ ex_mem.seq > mem_wb.seq
    /\ mem_wb.seq > wb_latch.seq
    /\ wb_latch.seq > 0
    /\ Len(ghost.retired) > 1

\* The global interrupt-enable bit of a privilege level: mstatus.MIE for M,
\* SIE (under either name of the status word) for S.
GlobalIe(c, level) ==
    IF level = 3 THEN MSTATUS_MIE \subseteq c.csrs.mstatus
    ELSE \/ MSTATUS_SIE \subseteq csr_read(c, SSTATUS)
         \/ MSTATUS_SIE \subseteq csr_read(c, MSTATUS)

\* C6: a tick takes an interrupt only if its mip and mie bits are set and
\* the level trap() delivers it to is above the current privilege, or is
\* the current privilege with that level's global interrupt enable set.
C6_InterruptAllowed ==
    [][(last'.op = "tick" /\ last'.irq # {}) =>
         /\ last'.irq \subseteq csrs'.mip
         /\ last'.irq \subseteq csrs.mie
         /\ privilege' \in {1, 3}
         /\ \/ privilege' > privilege
            \/ privilege' = privilege /\ GlobalIe(Cpu, privilege)]_vars


(***************************************************************************)
(* Claims about the trap unit, checked under SpecCsr.                      *)
(***************************************************************************)
\* The step called trap(last'.trap, last'.epc) and the call returned.
TrapCalled == last'.trap # NoTrap /\ ~halted'

\* Bit b of the status word, read under the CSR name n.
StatusBit(c, n, b) == b \in csr_read(c, n)

StatusNames == {MSTATUS, SSTATUS}

\* C4: after every call trap(cause, epc) with code c the privilege is S iff
\* the privilege before was U or S and bit c of the delegation mask
\* (mideleg for interrupts, medeleg for exceptions) is set, and M otherwise.
C4_TrapPrivilege ==
    [][TrapCalled =>
         /\ privilege' = 1 <=>
               (privilege <= 1 /\ TrapCode(last'.trap) \in DelegMask(Cpu, last'.trap))
         /\ privilege' # 1 => privilege' = 3]_vars

\* C5: a trap delegated to S writes sepc, scause, stval, moves SIE to SPIE,
\* sets SPP to the previous privilege, clears SIE and vectors through stvec;
\* any other trap does the same with the machine registers and leaves the
\* supervisor trap registers unchanged.  The status bits are bits of the one
\* status word, whichever name reads it.
C5_TrapEntryWrites ==
    [][TrapCalled =>
         LET cause == last'.trap
             word == CauseWord(TrapIsInterrupt(cause), TrapCode(cause))
         IN  IF privilege' = 1
             THEN /\ csrs'.sepc = last'.epc
                  /\ csrs'.scause = word
                  /\ csrs'.stval = TrapTval(cause)
                  /\ \A n \in StatusNames :
                        /\ StatusBit(Cpu', n, 5) <=> StatusBit(Cpu, n, 1)
                        /\ StatusBit(Cpu', n, 8) <=> (privilege = 1)
                        /\ ~StatusBit(Cpu', n, 1)
                  /\ pc' = TrapVector(csrs.stvec, cause)
             ELSE /\ csrs'.mepc = last'.epc
                  /\ csrs'.mcause = word
                  /\ csrs'.mtval = TrapTval(cause)
                  /\ StatusBit(Cpu', MSTATUS, 7) <=> StatusBit(Cpu, MSTATUS, 3)
                  /\ MppOf(csrs'.mstatus) = privilege
                  /\ ~StatusBit(Cpu', MSTATUS, 3)
                  /\ pc' = TrapVector(csrs.mtvec, cause)
                  /\ csrs'.sepc = csrs.sepc
                  /\ csrs'.scause = csrs.scause
                  /\ csrs'.stval = csrs.stval
                  /\ csrs'.sstatus = csrs.sstatus]_vars

\* C8: sstatus reads as mstatus restricted to the supervisor-visible bits.
C8_SstatusIsView ==
    csr_read(Cpu, SSTATUS) = csr_read(Cpu, MSTATUS) \cap SstatusMask

\* C9: a trap followed at once by the matching return restores the
\* privilege and the interrupt-enable bit of the level that took the trap
\* (MIE for MRET; SIE, under either name of the status word, for SRET) and
\* resumes at the saved pc.
C9_TrapReturnRestores ==
    [][(last.trap # NoTrap /\ ~halted) =>
         /\ (privilege = 3 /\ last'.op = "mret") =>
               /\ privilege' = last.pre.privilege
               /\ (3 \in csrs'.mstatus) <=> (3 \in last.pre.mstatus)
               /\ pc' = csrs.mepc - (csrs.mepc % 2)
         /\ (privilege = 1 /\ last'.op = "sret") =>
               /\ privilege' = last.pre.privilege
               /\ (1 \in csr_read(Cpu', SSTATUS)) <=> (1 \in last.pre.sstatus)
               /\ (1 \in csr_read(Cpu', MSTATUS)) <=> (1 \in last.pre.mstatus)
               /\ pc' = csrs.sepc - (csrs.sepc % 2)]_vars

(***************************************************************************)
(* Claims about the MMU, checked under SpecMmu.                            *)
(***************************************************************************)
\* C10: every Sv39 translation that produces a leaf, by a page-table walk
\* or from a TLB entry, leaves the leaf PTE in memory with A set, with D set
\* if the access was a store, and with D as it was if it was not.
C10_AccessedDirty ==
    [][(last'.op = "translate" /\ last'.leaf # 0) =>
         /\ pt_mem'[last'.leaf].a
         /\ last'.access = "Write" => pt_mem'[last'.leaf].d
         /\ last'.access # "Write" =>
               pt_mem'[last'.leaf].d = pt_mem[last'.leaf].d]_vars

(***************************************************************************)
(* Claims about the system instructions, checked under SpecSys.            *)
(***************************************************************************)
\* C11: in a tick whose execute stage handles SFENCE.VMA, the translation
\* that follows (the fetch of the same tick) is not served by a TLB entry,
\* and after the tick the D-TLB holds no valid entry and the I-TLB none but
\* the one that fetch's page-table walk refilled.
C11_SfenceFlushes ==
    [][(/\ last'.op = "tick"
        /\ id_ex.inst = SfenceInst
        /\ ghost'.exec.seq = id_ex.seq) =>
         /\ ghost'.fetch # "hit"
         /\ \A i \in DOMAIN mmu'.dtlb.entries : ~mmu'.dtlb.entries[i].valid
         /\ ghost'.fetch # "walk" =>
               \A i \in DOMAIN mmu'.itlb.entries : ~mmu'.itlb.entries[i].valid]_vars

(***************************************************************************)
(* Claims about the bus and the RAM, checked under SpecBus.                *)
(***************************************************************************)
\* The addresses of device i of the bus.
RangeOf(i) ==
    bus.devices[i].base .. (bus.devices[i].base + bus.devices[i].size - 1)

\* C12: the registered device ranges are pairwise disjoint, and every
\* address of a device's range is dispatched to that device, at the offset
\* from its base.
C12_DisjointDispatch ==
    /\ \A i, j \in DOMAIN bus.devices :
          i # j => RangeOf(i) \cap RangeOf(j) = {}
    /\ \A i \in DOMAIN bus.devices : \A p \in RangeOf(i) :
          find_device(bus, p) = i

\* The whole access lies in one RAM device.
InRam(addr, size) ==
    LET i == find_device(bus, addr)
    IN  i # 0 /\ addr + size - 1 \in RangeOf(i)

\* After a store, byte i of the value is at address + i.
BytesInPlace ==
    \A i \in 0..(last.width - 1) :
       ByteOf(BusRead(bus, last.addr + i, 1).val, 0) = ByteOf(last.val, i)

\* A load that directly follows a store of its address and width returns
\* the value stored, truncated to the width.
LoadsStored ==
    last.val = FromLeBytes([i \in 0..7 |-> ByteOf(last.stored, i)], 0, last.width)

Confined(x, y) ==
    CASE x \in {MSTATUS, MIDELEG} -> TRUE
      [] x = SSTATUS -> y \subseteq SstatusMask
      [] x = MIP -> y \subseteq MIP_SSIP \cup MIP_STIP \cup MIP_SEIP
      [] x = SIE -> y \subseteq csrs.mideleg
      [] x = SIP -> y \subseteq csrs.mideleg \cap MIP_SSIP
      [] x = MEPC -> y % 2 = 0
      [] OTHER -> y = 0

\* The value 0 of register x.
ZeroOf(x) == IF x \in {MEPC, MHARTID, CSR_SIM_PANIC} THEN 0 ELSE {}

\* A CSRRW of 0 to x directly follows a CSRRW to x of a value confined to
\* x's writable bits, and neither traps.
CsrrwPair ==
    /\ last.op = "csrrw" /\ last'.op = "csrrw"
    /\ last'.addr = last.addr
    /\ last.trap = NoTrap /\ last'.trap = NoTrap
    /\ Confined(last.addr, last.val)
    /\ last'.val = ZeroOf(last.addr)

\* What is left of x's value v when the bits no write to x changes are set
\* aside.
Writable(x, v) ==
    CASE x = MIP -> v \cap (MIP_SSIP \cup MIP_STIP \cup MIP_SEIP)
      [] x = SIP -> v \cap MIP_SSIP
      [] OTHER -> v

C15_HitStaysResident ==
    (last.op = "access" /\ last.hit /\ last.access = "Read") =>
        contains(l1_d_cache, last.addr)

(***************************************************************************)
(* Claims about LR and SC, checked under SpecAmo.                          *)
(***************************************************************************)
\* C16: an SC whose LR of the same address has been followed by no store
\* to the address, no other SC and no trap writes 0 to rd and stores; any
\* other SC writes 1 to rd and leaves memory unchanged; every SC clears the
\* reservation.
C16_LrSc ==
    [][last'.op = "SC" =>
         /\ IF last.resv = {last'.addr}
            THEN mem_wb'.load_data = 0 /\ ram'[last'.addr] = ex_mem'.store_data
            ELSE mem_wb'.load_data = 1 /\ ram' = ram
         /\ load_reservation' = {}]_vars

(***************************************************************************)
(* The resolution of conditional branches in EX.                           *)
(***************************************************************************)
\* This tick's execute stage resolves the branch that ID/EX holds.
BranchResolved ==
    /\ last'.op = "tick"
    /\ ghost'.after_ex.ran
    /\ id_ex.seq # 0
    /\ ghost'.exec.seq = id_ex.seq
    /\ id_ex.ctrl.branch
    /\ id_ex.trap = NoTrap

\* The outcome of the branch in ID/EX on the architectural register values.
ArchTaken ==
    LET a == ArchRead(ghost, FALSE, id_ex.rs1)
        b == ArchRead(ghost, FALSE, id_ex.rs2)
    IN  IF id_ex.inst.op = "BEQ" THEN a = b ELSE a # b

ResolvedNextPc == IF ArchTaken THEN id_ex.pc + id_ex.imm ELSE id_ex.pc + 4

\* The pc of the instruction fetched right after the branch in ID/EX.
FetchedNextPc == ghost.fetched[id_ex.seq + 1]

Mispredicted == FetchedNextPc # ResolvedNextPc

\* C17: every conditional branch resolved in EX increments exactly one of
\* the correct-prediction and misprediction counters; it is a misprediction
\* exactly when the pc fetched next differs from the resolved next pc
\* (target if taken, pc + 4 if not); on a misprediction the pc is redirected
\* to the resolved next pc, IF/ID and ID/EX are flushed to bubbles, and the
\* control-stall counter increases by 2.
C17_BranchResolution ==
    [][BranchResolved =>
         /\ id_ex.seq + 1 \in DOMAIN ghost.fetched
         /\ stats'.branch_mispredictions =
                stats.branch_mispredictions + (IF Mispredicted THEN 1 ELSE 0)
         /\ stats'.branch_predictions =
                stats.branch_predictions + (IF Mispredicted THEN 0 ELSE 1)
         /\ Mispredicted =>
                /\ ghost'.after_ex.pc = ResolvedNextPc
                /\ ghost'.after_ex.if_id = IfIdDefault
                /\ ghost'.after_ex.id_ex = IdExBubble
                /\ stats'.stalls_control = stats.stalls_control + 2]_vars

\* A taken branch that was predicted not taken has been resolved: counted
\* as a misprediction, and the fetch restarted at its target.
C17_Witness ==
    /\ last.op = "tick"
    /\ stats.branch_mispredictions = 1
    /\ stats.branch_predictions = 1
    /\ stats.stalls_control = 2
    /\ ghost.after_ex.ran
    /\ ghost.after_ex.if_id = IfIdDefault
    /\ ghost.after_ex.id_ex = IdExBubble
    /\ ghost.after_ex.pc = 8
    /\ if_id.pc = 8

(***************************************************************************)
(* The bundles of the superscalar fetch stage.                             *)
(***************************************************************************)
\* The entries of the bundle the last call of fetch_stage left in IF/ID.
Bundle == IF last.op = "fetch_stage" THEN if_id.entries ELSE <<>>

EndsBundle(e) ==
    /\ e.trap = NoTrap
    /\ \/ opcode(e.inst) \in {"OP_JAL", "OP_JALR"}
       \/ opcode(e.inst) = "OP_BRANCH" /\ e.pred_taken

\* C18: in fetch_stage, for every pipeline width and every predictor state,
\* a JAL or JALR is the last entry of its fetch bundle, and a branch
\* predicted taken is the last entry of its bundle.
C18_JumpEndsBundle ==
    \A i \in 1..Len(Bundle) : EndsBundle(Bundle[i]) => i = Len(Bundle)

(***************************************************************************)
(* The exit call.                                                          *)
(***************************************************************************)
\* This tick's execute stage executes the ECALL that ID/EX holds.
EcallExecuted ==
    /\ last'.op = "tick"
    /\ id_ex.seq # 0
    /\ ghost'.exec.seq = id_ex.seq
    /\ id_ex.inst = EcallInst
    /\ id_ex.trap = NoTrap

TakeExitCalled == last'.op = "take_exit" /\ last' # last

\* C19: an ECALL executed with a7 = 93 takes no trap and sets the exit code
\* to the value of a0; take_exit returns the exit code and clears it, so
\* the next call returns it and later calls return None until an exit call
\* sets one again.
C19_EcallExit ==
    [][/\ (EcallExecuted /\ ArchRead(ghost, FALSE, REG_A7) = SYS_EXIT) =>
            /\ stats'.traps_taken = stats.traps_taken
            /\ exit_code' = {ArchRead(ghost, FALSE, REG_A0)}
       /\ TakeExitCalled => last'.ret = exit_code /\ exit_code' = {}
       /\ exit_code' # exit_code => EcallExecuted \/ TakeExitCalled]_vars

(***************************************************************************)
(* The run loop.                                                           *)
(***************************************************************************)
RunLooping == last.op = "run" /\ last.run.state = "loop"

RunReturns == RunLooping /\ last'.run.state = "returned"

\* C20: run(limit = N) always returns: with the program's exit code as soon
\* as one is set, and otherwise with None after N cycles have been counted;
\* from every machine state, pending interrupts included, the ticks of the
\* loop advance the cycle counter past the budget.
C20_RunReturns ==
    /\ [][RunReturns =>
             IF last'.run.ret = {}
             THEN stats.cycles - last.run.start_cycles = last.run.limit
             ELSE stats'.cycles - last.run.start_cycles <= last.run.limit]_vars
    /\ [][RunLooping /\ exit_code' # {} => ~RunLooping']_vars
    /\ (RunLooping ~> ~RunLooping)

(***************************************************************************)
(* The stalled tick.                                                       *)
(***************************************************************************)
\* The step is a tick that began with a stall count above zero and took
\* no interrupt.
StalledTick == last'.op = "tick" /\ stall_cycles > 0 /\ last'.irq = {}

PlicEligible(id) ==
    /\ (id % 32) \in bus.plic_regs.pending[id \div 32]
    /\ (id % 32) \in bus.enable_bitmap[1][id \div 32]
    /\ bus.plic_regs.priorities[id] > bus.plic_regs.thresholds[1]

\* C22: tick() returns true exactly when some id in 1..63 is pending,
\* enabled for the supervisor context and of a priority above the
\* context's threshold; the claim register then holds the id of the highest
\* priority among those.
C22_PlicTickSelects ==
    last.op = "plic_tick" =>
        /\ (last.ret = {TRUE}) <=> (\E id \in 1..63 : PlicEligible(id))
        /\ last.ret = {TRUE} =>
              /\ bus.plic_regs.claims[1] \in 1..63
              /\ PlicEligible(bus.plic_regs.claims[1])
              /\ \A id \in 1..63 :
                    PlicEligible(id) =>
                        bus.plic_regs.priorities[id]
                            <= bus.plic_regs.priorities[bus.plic_regs.claims[1]]

\* The step reads (writes) the supervisor context's claim register.
ClaimRead == last'.op = "plic_read" /\ last'.addr = PlicClaimReg

ClaimWrite == last'.op = "plic_write" /\ last'.addr = PlicClaimReg

\* C23: a read of the supervisor context's claim register returns the id
\* selected and clears that id's pending bit (and no other); a write of the
\* register completes, and from then the register holds 0 until a tick
\* selects an interrupt.
C23_ClaimComplete ==
    [][LET claim == bus.plic_regs.claims[1]
       IN  /\ ClaimRead =>
                /\ last'.ret = {claim}
                /\ bus'.plic_regs.pending =
                      IF claim > 0
                      THEN [bus.plic_regs.pending EXCEPT
                               ![claim \div 32] = @ \ {claim % 32}]
                      ELSE bus.plic_regs.pending
                /\ bus'.plic_regs.claims = bus.plic_regs.claims
           /\ ClaimWrite => bus'.plic_regs.claims[1] = 0
           /\ (claim = 0 /\ last'.op # "plic_tick") =>
                bus'.plic_regs.claims[1] = 0]_vars

\* Interrupt 33 was selected, claimed by a read that cleared its pending
\* bit, and has just been completed.
C23_Witness ==
    /\ last.op = "plic_write" /\ last.addr = PlicClaimReg
    /\ bus.plic_regs.claims[1] = 0
    /\ bus.plic_regs.priorities[33] > 0
    /\ 1 \in bus.plic_regs.enables[1]
    /\ bus.plic_regs.pending[1] = {}
    /\ bus.plic_regs.pending[0] = {2}

(***************************************************************************)
(* The CLINT.                                                              *)
(***************************************************************************)
\* The step is a 32-bit write to the upper half of mtimecmp (of mtime).
WriteMtimecmpHigh ==
    last'.op = "clint_write32" /\ last'.addr = MTIMECMP_OFFSET + 4

WriteMtimeHigh == last'.op = "clint_write32" /\ last'.addr = MTIME_OFFSET + 4

\* C24: a 32-bit write of v to the upper half of mtimecmp (0x4004) or of
\* mtime (0xBFFC) puts v in the upper 32 bits of the register and leaves
\* the lower 32 bits, so that a 32-bit read of the same offset that comes
\* next returns v.
C24_ClintHighHalfWrite ==
    [][/\ WriteMtimecmpHigh =>
            bus'.clint_regs.mtimecmp =
                Join32(bus.clint_regs.mtimecmp, Shl32(last'.val))
       /\ WriteMtimeHigh =>
            bus'.clint_regs.mtime =
                Join32(bus.clint_regs.mtime, Shl32(last'.val))
       /\ (/\ last'.op = "clint_read32"
           /\ last'.addr \in {MTIMECMP_OFFSET + 4, MTIME_OFFSET + 4}
           /\ last'.stored # <<>>) => last'.val = last'.stored]_vars

(***************************************************************************)
(* The UART.                                                               *)
(***************************************************************************)
\* The ticks left until the channel is looked at.
TicksToDrain == 256 - bus.uart.tick_count

\* The step is a tick of the UART (the stdin thread's steps leave `last`
\* and tick_count alone).
UartTicked ==
    last'.op = "uart_tick" /\ bus'.uart.tick_count # bus.uart.tick_count

\* C25: whatever the interleaving of the stdin thread and the simulator
\* thread, the bytes the guest has read from the receive register while
\* data was available, followed by those queued and those in the channel,
\* are the bytes sent, in order; a read with data available returns the
\* oldest byte not yet read; and every byte sent is in the queue, with
\* LSR data-ready and the tick raising the line when IER enables it, after
\* at most 256 further ticks: each tick either empties the channel into
\* the queue or brings the tick that does one nearer.
C25_UartInput ==
    /\ [](bus.uart_log.got \o bus.uart.rx_queue \o bus.uart.rx_receiver
             = bus.uart_log.sent)
    /\ [](last.op = "uart_read" /\ last.hit =>
             last.ret = {bus.uart_log.sent[Len(bus.uart_log.got)]})
    /\ [](last.op = "uart_read" /\ last.addr = 5 =>
             (last.ret = {97}) = (bus.uart.rx_queue # <<>>))
    /\ [](TicksToDrain \in 1..256)
    /\ [][UartTicked =>
            /\ \/ /\ bus'.uart.rx_receiver = <<>>
                  /\ bus'.uart.rx_queue
                        = bus.uart.rx_queue \o bus.uart.rx_receiver
               \/ /\ TicksToDrain' = TicksToDrain - 1
                  /\ bus'.uart.rx_receiver = bus.uart.rx_receiver
                  /\ bus'.uart.rx_queue = bus.uart.rx_queue
            /\ last'.ret = {bus'.uart.ier % 2 = 1 /\ bus'.uart.rx_queue # <<>>}
         ]_vars

\* Both bytes were sent while the guest was reading; the guest has read the
\* first and the second is queued, the line raised by the last tick.
C25_Witness ==
    /\ last.op = "uart_tick" /\ last.ret = {TRUE}
    /\ bus.uart_log.sent = <<66, 65>>
    /\ bus.uart_log.got = <<66>>
    /\ bus.uart.rx_queue = <<65>>

(***************************************************************************)
(* The block device.                                                       *)
(***************************************************************************)
\* The bytes of RAM.
RamBytes == 0..(VRamSize - 1)

\* The bytes [addr, addr + len) lie inside RAM.
FitsInRam(addr, len) ==
    /\ ~Add64(addr, U64Of(len)).carry
    /\ SmallU64(Add64(addr, U64Of(len)).val)
    /\ Add64(addr, U64Of(len)).val[1] <= VRamSize

\* C26: every byte a DMA access touches lies inside RAM, and an access that
\* does not fit entirely inside RAM touches no byte, whatever addresses and
\* lengths the guest programmed.
C26_DmaInsideRam ==
    \A a \in bus.dma.log :
       /\ a.touched => \A i \in 0..(a.len - 1) : a.lo + i \in RamBytes
       /\ ~FitsInRam(a.addr, a.len) => ~a.touched

\* The n bytes of RAM at a.
RamAt(a, n) == [i \in 1..n |-> bus.vram[a + i - 1]]

\* The step before was a write to queue-notify.
Notified == last.op = "virtio_write" /\ last.addr = 80

\* The guest set the queue up as the device expects it: the ring size and
\* the addresses of the descriptor table and the used ring are programmed,
\* and the three descriptors name a header, a data buffer and a status byte
\* inside RAM.
WellFormedQueue ==
    /\ bus.virtio.queue_num = 2
    /\ bus.virtio.queue_desc_low = U64Of(QueueAt.desc)
    /\ bus.virtio.queue_used_low = U64Of(QueueAt.used)
    /\ Le64(RamAt(QueueAt.desc, 8)) = U64Of(QueueAt.header)
    /\ Le64(RamAt(QueueAt.desc + 16, 8)) = U64Of(QueueAt.data)
    /\ Le64(RamAt(QueueAt.desc + 32, 8)) = U64Of(QueueAt.status)

\* The requests made available since the last notify were each completed
\* once, in the order of the available ring.
ProcessedInOrder ==
    LET avail_idx == Le16(RamAt(2, 2))
        used_idx == Le16(RamAt(QueueAt.used + 2, 2))
        n == Len(bus.dma.done)
    IN  /\ bus.virtio.last_avail_idx = avail_idx
        /\ n = (avail_idx + 65536 - bus.dma.last_avail_idx) % 65536
        /\ used_idx = (bus.dma.used_idx + n) % 65536
        /\ \A k \in 1..n :
              /\ bus.dma.done[k]
                   = Le16(RamAt(4 + (((bus.dma.last_avail_idx + k - 1) % 2) * 2), 2))
              /\ Le32(RamAt(QueueAt.used + 4
                             + (((bus.dma.used_idx + k - 1) % 2) * 8), 4))
                   = U64Of(bus.dma.done[k])
        /\ n > 0 => bus.vram[QueueAt.status] = 0

\* C27: a write to queue-notify returns, whatever queue the guest
\* programmed, with interrupt-status bit 0 set; the requests of a
\* well-formed queue were then each processed once and in order (last
\* available index, used index, head indices, status byte); and the bit,
\* which is what every tick returns, stays set until the guest writes it to
\* interrupt-ack.
C27_NotifyProcessesQueue ==
    /\ [](Notified =>
            /\ ~bus.dma.panic
            /\ 0 \in bus.virtio.interrupt_status
            /\ WellFormedQueue => ProcessedInOrder)
    /\ [](last.op = "virtio_tick"
            => last.ret = {0 \in bus.virtio.interrupt_status})
    /\ [][0 \in bus.virtio.interrupt_status
            /\ 0 \notin bus'.virtio.interrupt_status
            => last'.op = "virtio_write" /\ last'.addr = 100]_vars

(***************************************************************************)
(* The ALU's division.                                                     *)
(***************************************************************************)
\* The operands as the form sees them, and the least signed value of the
\* form.
Dividend == IF last.stored[4] THEN Sext32(last.stored[2]) ELSE last.stored[2]

Divisor == IF last.stored[4] THEN Sext32(last.stored[3]) ELSE last.stored[3]

IntMin == IF last.stored[4] THEN <<0, 32768, 65535, 65535>>
          ELSE <<0, 0, 0, 32768>>

\* C28: for DIV, DIVU, REM and REMU in the 64-bit and the *W forms and all
\* operands, division by zero gives all-ones as the quotient and the
\* dividend as the remainder, the signed division of the least value by -1
\* gives the least value as the quotient and 0 as the remainder, and the
\* result of a *W form is a 32-bit value sign-extended to 64 bits.
C28_Division ==
    last.op = "alu" =>
       /\ Divisor = Zero64 =>
             last.val = IF last.stored[1] \in {"Div", "Divu"} THEN U64Max
                        ELSE Dividend
       /\ last.stored[1] \in {"Div", "Rem"} /\ Dividend = IntMin
             /\ Divisor = U64Max =>
             last.val = IF last.stored[1] = "Div" THEN IntMin ELSE Zero64
       /\ last.stored[4] => last.val = Sext32(last.val)

(***************************************************************************)
(* The privilege level.                                                    *)
(***************************************************************************)
\* C29: after any sequence of ticks, with traps, writes of mstatus, MRET
\* and SRET among them, the privilege level is User (0), Supervisor (1) or
\* Machine (3), never the reserved 2.
C29_PrivilegeEncoding == privilege \in {0, 1, 3}

(***************************************************************************)
(* Instructions pass the memory and write-back stages once.                *)
(***************************************************************************)
\* A tick ran the stages with an instruction in ID/EX and one in EX/MEM.
ExecutedBehind ==
    /\ last'.op = "tick"
    /\ ghost'.ran
    /\ id_ex.seq # 0
    /\ ex_mem.seq # 0

\* No instruction is in the sequence of retired instructions twice.
RetiredOnce ==
    \A i, j \in DOMAIN ghost.retired :
       i # j => ghost.retired[i] # ghost.retired[j]

\* C30: once execute_stage has handled an instruction, EX/MEM no longer
\* holds the instruction executed in the cycle before, MEM/WB does not take
\* the same instruction in two cycles, and no instruction is retired twice.
C30_ThroughMemOnce ==
    /\ []RetiredOnce
    /\ [][ExecutedBehind => ex_mem'.seq # ex_mem.seq]_vars
    /\ [][last'.op = "tick" /\ ghost'.ran /\ mem_wb.seq # 0
            => mem_wb'.seq # mem_wb.seq]_vars

(***************************************************************************)
(* The address an interrupt saves.                                         *)
(***************************************************************************)
\* The tick took an interrupt.
InterruptTaken ==
    /\ last'.op = "tick"
    /\ last'.irq # {}

\* The address of the oldest instruction in the pipeline that the execute
\* stage has not handled: the one in ID/EX, else the one in IF/ID, else the
\* one the fetch stage would fetch next.
OldestUnexecuted ==
    IF id_ex.seq # 0 THEN id_ex.pc
    ELSE IF if_id.seq # 0 THEN if_id.pc
    ELSE pc

\* The epc register of the level the trap was delivered to.
SavedEpc == IF privilege = 1 THEN csrs.sepc ELSE csrs.mepc

\* C31: when tick takes an interrupt, the epc it saves is the address of
\* the oldest instruction that has not executed, so that none of the
\* instructions flushed from IF/ID and ID/EX is skipped on return.
C31_InterruptEpc ==
    [][InterruptTaken => SavedEpc' = OldestUnexecuted]_vars

(***************************************************************************)
(* The interrupt delivered to S-mode and the ticks after it.               *)
(***************************************************************************)
\* The tick took an interrupt and trap() delivered it to S-mode.
DelegatedTaken ==
    /\ InterruptTaken
    /\ privilege' = 1

\* The tick follows one that took an interrupt delivered to S-mode: the
\* handler has executed nothing yet.
TickInHandler ==
    /\ last.op = "tick" /\ last.irq # {} /\ privilege = 1
    /\ last'.op = "tick"

\* C32: after tick takes an interrupt delegated to S-mode, SIE is clear in
\* the status word the interrupt check reads, and the following tick does
\* not take the same interrupt again: it runs the stages instead.
C32_DelegatedNotRetaken ==
    /\ [][DelegatedTaken => csrs'.mstatus \cap MSTATUS_SIE = {}]_vars
    /\ [][TickInHandler => last'.irq # last.irq /\ ghost'.ran]_vars

(***************************************************************************)
(* Translations served by the TLB and by the walk.                         *)
(***************************************************************************)
\* The Cpu with both TLBs empty: every translation is resolved by a walk.
Flushed(c) == [c EXCEPT !.mmu = MmuNew]

\* The TLB entry that serves the access (invalid when it misses or when
\* the address is not translated).
ServingEntry(vaddr, access) ==
    IF privilege = 3 \/ csrs.satp.mode # SATP_MODE_SV39 THEN TlbEntryDefault
    ELSE IF access = "Fetch" THEN TlbLookup(mmu.itlb, vaddr \div 4096)
    ELSE TlbLookup(mmu.dtlb, vaddr \div 4096)

\* The address of the leaf entry the page tables hold for the address (0
\* when they hold none).
RECURSIVE LeafAddr(_, _, _)
LeafAddr(vaddr, level, pt_addr) ==
    LET pte_addr == pt_addr + VpnLevel(vaddr, level) * 8
        pte == ReadPte(pt_mem, pte_addr)
    IN  IF ~pte.v THEN 0
        ELSE IF pte.r \/ pte.w \/ pte.x THEN pte_addr
        ELSE IF level = 0 THEN 0
        ELSE LeafAddr(vaddr, level - 1, pte.ppn * 4096)

\* The entry is the one a walk of the page tables as they are now fills:
\* the tables have not changed under it.
EntryCurrent(e, vaddr) ==
    /\ e.valid
    /\ LeafAddr(vaddr, 2, csrs.satp.ppn * 4096) = e.pte_addr
    /\ LET pte == ReadPte(pt_mem, e.pte_addr)
       IN  /\ pte.ppn = e.ppn
           /\ pte.r = e.r /\ pte.w = e.w /\ pte.x = e.x /\ pte.u = e.u

\* C33: for the same page tables, CSRs and privilege, an access faults on
\* a TLB hit exactly when, and with the trap with which, it faults when a
\* page-table walk resolves it.
C33_FaultsWithoutTlb ==
    \A vaddr \in VAddrs, access \in AccessTypes :
        EntryCurrent(ServingEntry(vaddr, access), vaddr) =>
            translate(Cpu, vaddr, access).trap
                = translate(Flushed(Cpu), vaddr, access).trap

\* C34: for the same page tables, a translation served from the TLB gives
\* the physical address the page-table walk gives, for leaves at every
\* level.
C34_TlbSameAddress ==
    \A vaddr \in VAddrs, access \in AccessTypes :
        LET hit == translate(Cpu, vaddr, access)
            walk == translate(Flushed(Cpu), vaddr, access)
        IN  /\ EntryCurrent(ServingEntry(vaddr, access), vaddr)
            /\ hit.trap = NoTrap /\ walk.trap = NoTrap
            => hit.paddr = walk.paddr

(***************************************************************************)
(* The exit call behind an instruction that writes its arguments.          *)
(***************************************************************************)
\* The instruction before the one in ID/EX, which is in EX/MEM (and passes
\* to MEM/WB in this tick), writes a7 or a0.
PrecedingWritesArg ==
    /\ ex_mem.seq # 0
    /\ ex_mem.seq = id_ex.seq - 1
    /\ ex_mem.trap = NoTrap
    /\ ex_mem.ctrl.reg_write
    /\ ex_mem.rd \in {REG_A7, REG_A0}

\* The exit code the sentinel test gives for the registers in program
\* order: none when the call is not an exit call.
ExitTest ==
    LET a7 == ArchRead(ghost, FALSE, REG_A7)
        a0 == ArchRead(ghost, FALSE, REG_A0)
        a1 == ArchRead(ghost, FALSE, REG_A1)
    IN  IF a7 = SYS_EXIT THEN {a0}
        ELSE IF a0 = SYS_EXIT THEN {a1}
        ELSE {}

\* C35: an ECALL that follows an instruction writing a7 or a0 tests the
\* values that instruction wrote: it sets the exit code, or takes the
\* environment-call trap, as the registers in program order say.
C35_EcallSeesPrecedingWrite ==
    [][EcallExecuted /\ PrecedingWritesArg =>
          /\ exit_code' = ExitTest
          /\ stats'.traps_taken =
                stats.traps_taken + (IF ExitTest = {} THEN 1 ELSE 0)]_vars

(***************************************************************************)
(* The claim register after the source has gone.                           *)
(***************************************************************************)
\* The step reads the claim register and the step before it was a tick:
\* the pending bits, enable bits, priorities and threshold are those the
\* most recent tick saw.
ClaimReadAfterTick == last.op = "plic_tick" /\ ClaimRead

\* C36: a read of the claim register returns 0 or the id of an interrupt
\* that was pending, enabled and above the threshold at the most recent
\* tick.
C36_ClaimIsLive ==
    [][ClaimReadAfterTick =>
          \A id \in last'.ret : id = 0 \/ PlicEligible(id)]_vars

(***************************************************************************)
(* Accesses at the end of the RAM range.                                   *)
(***************************************************************************)
\* The step is an access of the bus, by the memory stage or by a direct
\* call, at an address that is_valid_address accepts.
ValidAccess ==
    /\ last'.op \in {"load", "store", "bus_read", "bus_write"}
    /\ is_valid_address(bus, last'.addr)

\* C37: a bus read or write of width 1, 2, 4 or 8 at an address that
\* is_valid_address accepts completes without the out-of-bounds panic of
\* the RAM device, also when it starts in the last bytes of the range.
C37_NoOutOfBoundsPanic ==
    [][ValidAccess => ~halted']_vars

(***************************************************************************)
(* The ALU's high-half multiplications.                                    *)
(***************************************************************************)
\* The 128-bit product of a and b, each taken as signed or as unsigned.
ProductOf(a, signed_a, b, signed_b) ==
    LET neg_a == signed_a /\ IsNeg64(a)
        neg_b == signed_b /\ IsNeg64(b)
        p == WideMul(IF neg_a THEN Neg64(a) ELSE a,
                     IF neg_b THEN Neg64(b) ELSE b)
    IN  IF neg_a # neg_b THEN Neg128(p) ELSE p

\* A 64-bit high-half multiplication was executed.
MulhExecuted == last.op = "alu_mul" /\ ~last.stored[4]

\* C38: for all 64-bit operands MULH returns the upper 64 bits of the
\* 128-bit product of the operands taken as signed values, MULHSU the upper
\* 64 bits of signed rs1 times unsigned rs2, and MULHU the upper 64 bits of
\* the unsigned product.
C38_MulHigh ==
    MulhExecuted =>
       /\ ~halted
       /\ last.val = ProductOf(last.stored[2], last.stored[1] # "Mulhu",
                               last.stored[3], last.stored[1] = "Mulh").hi
(***************************************************************************)
(* The GShare pattern history table.                                       *)
(***************************************************************************)
\* update_branch was called: last'.stored is <<idx, taken, counter before>>.
GshareUpdated == last'.op = "gshare_update"

\* C39: after any sequence of update_branch calls every GShare PHT counter
\* is in 0..3, and the indexed counter saturates: a taken outcome never
\* decreases it (it stays at 3 when already 3) and a not-taken outcome
\* never increases it (it stays at 0 when already 0).
C39_PhtSaturates ==
    [][GshareUpdated =>
          LET idx == last'.stored[1]
              taken == last'.stored[2]
              before == last'.stored[3]
              after == branch_predictor'.pht[idx]
          IN  /\ \A i \in 0..(TABLE_SIZE - 1) :
                    branch_predictor'.pht[i] \in 0..3
              /\ taken => after >= before
              /\ ~taken => after <= before]_vars
(***************************************************************************)
(* The DRAM controller's open row.                                         *)
(***************************************************************************)
\* An access with the DRAM controller hit in an enabled cache level.
CacheHitAccess ==
    /\ last'.op = "mem_access" /\ last'.hit
    /\ bus.mem_controller.kind = "DRAM"

\* An access with the DRAM controller missed every cache level.
ReachesMemory ==
    /\ last'.op = "mem_access" /\ ~last'.hit
    /\ bus.mem_controller.kind = "DRAM"

\* The row-buffer latency when the open row is the one the last access
\* that reached memory left.
LatencyAfter(m, reached, addr) ==
    IF reached = {RowOf(addr)} THEN m.t_cas
    ELSE IF reached # {} THEN m.t_pre + m.t_ras + m.t_cas
    ELSE m.t_ras + m.t_cas

\* C40: the DRAM controller's open row changes only for accesses that reach
\* memory: a fetch, load or store that hits in an enabled cache level
\* leaves the open row unchanged, so the row-buffer latency charged to a
\* later miss depends only on the sequence of earlier accesses that missed
\* every cache level.
C40_OpenRowOnMiss ==
    /\ [][CacheHitAccess =>
             bus'.mem_controller.last_row = bus.mem_controller.last_row]_vars
    /\ [][ReachesMemory =>
             last'.width = LatencyAfter(bus.mem_controller, last.resv,
                                        last'.addr)]_vars
====
